---- MODULE Spec2Model ----
(***************************************************************************)
(* Verification model of the oil-analysis anomaly alert pipeline:          *)
(* MultiModelAnomalyOperator.flat_map (app/flink/operators.py) with the    *)
(* S3 model store, the trainer's persistence path, the bundle loader, the  *)
(* LRU model cache, the sliding window and the detector it drives.         *)
(***************************************************************************)
EXTENDS Integers, Sequences, FiniteSets, TLC

\* ------------------------------------------------------------------
\* Bounds of the model
\* ------------------------------------------------------------------
NumMonitors == 2

WINDOW_COUNT == 2

SLIDE_COUNT == 1

MODEL_CACHE_SIZE == 1

MaxTrainCalls == 2

NumThreads == 2

MaxWindowSize == 3

MaxSlideSize == 3

MaxAdds == 5

MaxArrivals == 4

MaxRows == 2

MaxFrameCalls == 2

NumGoodKeys == 3

MaxCacheSize == 2

MaxGets == 4

MaxTrainRows == 2

NumChunks == 3

MaxReadings == 3

MaxRetries == 3

MaxDetectRows == 3

MaxClock == 120

MaxTokenCalls == 3

\* ------------------------------------------------------------------
\* Identities
\* ------------------------------------------------------------------
Devices == 1..NumMonitors

\* DeviceAPIClient.get_monitor_id_runtime: DEVICEID -> MONITORID.
get_monitor_id_runtime(device_id) == 100 + device_id

Monitors == {get_monitor_id_runtime(d) : d \in Devices}

Threads == 1..NumThreads

\* ------------------------------------------------------------------
\* Inbound messages and safe_json_parse
\* ------------------------------------------------------------------
\* What one feature value of PROCESS_PARAMETER looks like: a number, or a
\* string that float() rejects.
ParamKinds == {"num", "bad"}

\* A reading of a device: seq tells the readings of one device apart (0 when
\* their order plays no part).
Reading(d, param, seq) == [kind |-> "reading", dev |-> d, param |-> param, seq |-> seq]

\* Raw Kafka payloads: not JSON, JSON that is falsy ({} / null / 0), a JSON
\* array, an object without DEVICEID, an object with DEVICEID.
Messages ==
    {[kind |-> k, dev |-> 0, param |-> "num", seq |-> 0] :
        k \in {"garbage", "falsy", "array", "nodev"}}
    \cup {Reading(d, "num", 0) : d \in Devices}
    \cup {Reading(1, "bad", 0)}

\* Python None as a parse result.
NoRecord ==
    [type |-> "NoneType", truthy |-> FALSE, DEVICEID |-> 0, PROCESS_PARAMETER |-> "num",
     seq |-> 0]

\* safe_json_parse: None when json.loads rejects the payload, the parsed
\* object otherwise. type is the Python type of the result, truthy its
\* truth value.
safe_json_parse(value) ==
    IF value.kind = "garbage"
    THEN NoRecord
    ELSE [type |-> IF value.kind = "array" THEN "list" ELSE "dict",
          truthy |-> value.kind # "falsy",
          DEVICEID |-> value.dev,
          PROCESS_PARAMETER |-> value.param,
          seq |-> value.seq]

\* ------------------------------------------------------------------
\* Model store (S3): per monitor model.pkl, scaler.pkl, metadata.json
\* ------------------------------------------------------------------
NoMetadata == [present |-> FALSE, training_status |-> "absent", feature_names |-> "absent"]

Metadata(status, names) == [present |-> TRUE, training_status |-> status, feature_names |-> names]

\* metadata dict assembled by _train_single_monitor: feature_names is
\* MODEL_FEATURE_NAMES_ORDERED, there is no training_status key.
TrainerMetadata == Metadata("absent", "names")

EmptyBundle == [model |-> FALSE, scaler |-> FALSE, metadata |-> NoMetadata]

FullBundle(meta) == [model |-> TRUE, scaler |-> TRUE, metadata |-> meta]

\* What the bucket can hold for a monitor when the operator opens: nothing,
\* a bundle with the status marker, one whose feature list is empty, a lone
\* model.pkl left by an interrupted run.
InitialBundles ==
    {EmptyBundle,
     FullBundle(Metadata("SUCCESS", "names")),
     FullBundle(Metadata("SUCCESS", "empty")),
     [model |-> TRUE, scaler |-> FALSE, metadata |-> NoMetadata]}

HeadOutcomes == {"answer", "error"}

\* model_exists: head_object on model.pkl. "error" is a non-404 ClientError,
\* which is re-raised.
model_exists(st, monitor_id, head) ==
    IF head = "error" THEN "raise"
    ELSE IF st[monitor_id].model THEN "true" ELSE "false"

save_model(st, monitor_id) == [st EXCEPT ![monitor_id].model = TRUE]

save_scaler(st, monitor_id) == [st EXCEPT ![monitor_id].scaler = TRUE]

save_metadata(st, monitor_id, metadata) == [st EXCEPT ![monitor_id].metadata = metadata]

\* ------------------------------------------------------------------
\* Trainer
\* ------------------------------------------------------------------
TrainerOutcomes ==
    {"no_valid_rows", "fit_error", "persist_fail_0", "persist_fail_1", "persist_fail_2", "ok"}

\* _train_single_monitor: every exception is caught and logged, the function
\* returns None in all cases; the store keeps what was written before the
\* failing step (model.pkl, then scaler.pkl, then metadata.json).
train_single_monitor(st, monitor_id, outcome) ==
    CASE outcome \in {"no_valid_rows", "fit_error", "persist_fail_0"} -> st
      [] outcome = "persist_fail_1" -> save_model(st, monitor_id)
      [] outcome = "persist_fail_2" -> save_scaler(save_model(st, monitor_id), monitor_id)
      [] OTHER -> save_metadata(save_scaler(save_model(st, monitor_id), monitor_id),
                                monitor_id, TrainerMetadata)

TrainOutcomes == {"acquire_raise", "no_data"} \cup TrainerOutcomes

\* build_model_for_device_v2: history acquisition, then the trainer. An
\* acquisition failure either propagates ("acquire_raise") or ends the call
\* without training ("no_data").
build_model_for_device_v2(st, monitor_id, outcome) ==
    IF outcome \in {"acquire_raise", "no_data"} THEN st
    ELSE train_single_monitor(st, monitor_id, outcome)

\* ------------------------------------------------------------------
\* Loader and cache
\* ------------------------------------------------------------------
LoadFailure == [raised |-> TRUE, metadata |-> NoMetadata]

IoOutcomes == {"ok", "error"}

\* load_model_bundle without the training_status guard.
load_model_bundle_any_status(st, monitor_id, head, io) ==
    IF model_exists(st, monitor_id, head) # "true" THEN LoadFailure
    ELSE IF io = "error" \/ ~st[monitor_id].scaler \/ ~st[monitor_id].metadata.present
         THEN LoadFailure
    ELSE IF st[monitor_id].metadata.feature_names = "absent" THEN LoadFailure
    ELSE [raised |-> FALSE, metadata |-> st[monitor_id].metadata]

\* load_model_bundle: existence check, artifact reads, metadata validation.
\* Returns the bundle (its metadata; model and scaler are opaque), or
\* LoadFailure when any step raises.
load_model_bundle(st, monitor_id, head, io) ==
    IF model_exists(st, monitor_id, head) # "true" THEN LoadFailure
    ELSE IF io = "error" \/ ~st[monitor_id].scaler \/ ~st[monitor_id].metadata.present
         THEN LoadFailure
    ELSE IF st[monitor_id].metadata.training_status # "SUCCESS" THEN LoadFailure
    ELSE IF st[monitor_id].metadata.feature_names = "absent" THEN LoadFailure
    ELSE [raised |-> FALSE, metadata |-> st[monitor_id].metadata]

CacheKeys(c) == {c[i].key : i \in 1..Len(c)}

CacheWithout(c, monitor_id) == SelectSeq(c, LAMBDA e : e.key # monitor_id)

CacheEntry(c, monitor_id) == (CHOOSE i \in 1..Len(c) : c[i].key = monitor_id)

\* ModelLoadError(monitor_id, reason): __init__ accepts these two keyword
\* arguments only; any other keyword makes the call raise TypeError.
ModelLoadError(kwargs) ==
    IF kwargs = {"monitor_id", "reason"} THEN "ModelLoadError" ELSE "TypeError"

\* The exception load_model_bundle leaves with, "none" when it returns: the
\* ClientError of the existence check (line 59, outside the try),
\* ModelNotFoundError, or what raise ModelLoadError(monitor_id=...,
\* message=...) produces.
load_model_bundle_error(st, monitor_id, head, io) ==
    IF model_exists(st, monitor_id, head) = "raise" THEN "ClientError"
    ELSE IF model_exists(st, monitor_id, head) = "false" THEN "ModelNotFoundError"
    ELSE IF load_model_bundle(st, monitor_id, head, io).raised
         THEN ModelLoadError({"monitor_id", "message"})
    ELSE "none"

\* ModelCache.__init__: max_size or CONFIG.MODEL_CACHE_SIZE (0 for None).
\* cache is the OrderedDict, least recently used first.
ModelCache(max_size) ==
    [max_size |-> IF max_size = 0 THEN MODEL_CACHE_SIZE ELSE max_size, cache |-> <<>>]

\* OrderedDict.__setitem__: a new key goes to the end, an existing key
\* keeps its place and takes the new value.
OrderedDict_set(c, key, value) ==
    IF key \in CacheKeys(c)
    THEN [i \in 1..Len(c) |-> IF c[i].key = key THEN [key |-> key, bundle |-> value] ELSE c[i]]
    ELSE Append(c, [key |-> key, bundle |-> value])

\* OrderedDict.popitem(last=False)
OrderedDict_popitem(c) == Tail(c)

\* get answering a hit without refreshing the entry's place.
get_no_refresh(self, st, monitor_id, head, io) ==
    IF monitor_id \in CacheKeys(self.cache)
    THEN [self |-> self,
          bundle |-> self.cache[CacheEntry(self.cache, monitor_id)].bundle,
          error |-> "none",
          loaded |-> FALSE]
    ELSE LET model_bundle == load_model_bundle(st, monitor_id, head, io) IN
         IF model_bundle.raised
         THEN [self |-> self, bundle |-> LoadFailure,
               error |-> load_model_bundle_error(st, monitor_id, head, io), loaded |-> TRUE]
         ELSE LET inserted == OrderedDict_set(self.cache, monitor_id, model_bundle) IN
              [self |-> [self EXCEPT !.cache = IF Len(inserted) > self.max_size
                                               THEN OrderedDict_popitem(inserted)
                                               ELSE inserted],
               bundle |-> model_bundle, error |-> "none", loaded |-> TRUE]

\* get without the eviction of lines 86-88.
get_no_eviction(self, st, monitor_id, head, io) ==
    IF monitor_id \in CacheKeys(self.cache)
    THEN LET model_bundle == self.cache[CacheEntry(self.cache, monitor_id)].bundle IN
         [self |-> [self EXCEPT !.cache = OrderedDict_set(CacheWithout(self.cache, monitor_id),
                                                          monitor_id, model_bundle)],
          bundle |-> model_bundle, error |-> "none", loaded |-> FALSE]
    ELSE LET model_bundle == load_model_bundle(st, monitor_id, head, io) IN
         IF model_bundle.raised
         THEN [self |-> self, bundle |-> LoadFailure,
               error |-> load_model_bundle_error(st, monitor_id, head, io), loaded |-> TRUE]
         ELSE [self |-> [self EXCEPT !.cache = OrderedDict_set(self.cache, monitor_id, model_bundle)],
               bundle |-> model_bundle, error |-> "none", loaded |-> TRUE]

\* ModelCache.get. Result: [self |-> the cache object after the call,
\* bundle |-> bundle or LoadFailure, error |-> the exception the call leaves
\* with ("none" when it returns), loaded |-> whether the store was read].
get(self, st, monitor_id, head, io) ==
    IF monitor_id \in CacheKeys(self.cache)
    THEN LET model_bundle == self.cache[CacheEntry(self.cache, monitor_id)].bundle IN
         [self |-> [self EXCEPT !.cache = OrderedDict_set(CacheWithout(self.cache, monitor_id),
                                                          monitor_id, model_bundle)],
          bundle |-> model_bundle, error |-> "none", loaded |-> FALSE]
    ELSE LET model_bundle == load_model_bundle(st, monitor_id, head, io) IN
         IF model_bundle.raised
         THEN [self |-> self, bundle |-> LoadFailure,
               error |-> load_model_bundle_error(st, monitor_id, head, io), loaded |-> TRUE]
         ELSE LET inserted == OrderedDict_set(self.cache, monitor_id, model_bundle) IN
              [self |-> [self EXCEPT !.cache = IF Len(inserted) > self.max_size
                                               THEN OrderedDict_popitem(inserted)
                                               ELSE inserted],
               bundle |-> model_bundle, error |-> "none", loaded |-> TRUE]

\* ModelCache.clear
clear(self) == [self EXCEPT !.cache = <<>>]

\* self.model_cache.get(monitor_id) in the operator, the cache given by
\* its OrderedDict. Result: [cache |-> cache after the call, bundle |->
\* bundle or LoadFailure, loaded |-> whether the store was read].
ModelCache_get(c, st, monitor_id, head, io) ==
    LET got == get([ModelCache(MODEL_CACHE_SIZE) EXCEPT !.cache = c], st, monitor_id, head, io)
    IN  [cache |-> got.self.cache, bundle |-> got.bundle, loaded |-> got.loaded]

\* ------------------------------------------------------------------
\* Sliding window
\* ------------------------------------------------------------------
\* deque.append keeping every record: no maxlen.
deque_append_unbounded(buffer, record, maxlen) == Append(buffer, record)

\* deque.append refusing the new record when the deque is at maxlen.
deque_append_keep_old(buffer, record, maxlen) ==
    IF Len(buffer) = maxlen THEN buffer ELSE Append(buffer, record)

\* deque(maxlen).append: at maxlen the leftmost item is discarded.
deque_append(buffer, record, maxlen) ==
    IF Len(buffer) = maxlen THEN Append(Tail(buffer), record)
    ELSE Append(buffer, record)

\* deque.popleft, n times.
RECURSIVE deque_popleft(_, _)
deque_popleft(buffer, n) ==
    IF n = 0 THEN buffer ELSE deque_popleft(Tail(buffer), n - 1)

\* deque.pop, n times: the rightmost items go.
RECURSIVE deque_pop(_, _)
deque_pop(buffer, n) ==
    IF n = 0 THEN buffer ELSE deque_pop(SubSeq(buffer, 1, Len(buffer) - 1), n - 1)

Min(a, b) == IF a < b THEN a ELSE b

\* SlidingWindow.__init__
SlidingWindow(window_size, slide_size) ==
    [window_size |-> window_size, slide_size |-> slide_size, buffer |-> <<>>]

\* SlidingWindow.add
add(self, record) ==
    [self EXCEPT !.buffer = deque_append(self.buffer, record, self.window_size)]

\* is_full answering one record early.
is_full_early(self) == Len(self.buffer) >= self.window_size - 1

\* SlidingWindow.is_full
is_full(self) == Len(self.buffer) = self.window_size

\* slide dropping the newest records.
slide_newest(self) ==
    [self EXCEPT !.buffer = deque_pop(self.buffer, Min(self.slide_size, Len(self.buffer)))]

\* SlidingWindow.slide
slide(self) ==
    [self EXCEPT !.buffer = deque_popleft(self.buffer, Min(self.slide_size, Len(self.buffer)))]

\* SlidingWindow.reset
reset(self) == [self EXCEPT !.buffer = <<>>]

\* The window of a monitor in the operator: SlidingWindow(WINDOW_COUNT,
\* SLIDE_COUNT), given by its buffer.
MonitorWindow(buffer) == [SlidingWindow(WINDOW_COUNT, SLIDE_COUNT) EXCEPT !.buffer = buffer]

\* SlidingWindow_add putting the record at the head (appendleft).
SlidingWindow_add_left(buffer, record) ==
    IF Len(buffer) = WINDOW_COUNT THEN <<record>> \o SubSeq(buffer, 1, Len(buffer) - 1)
    ELSE <<record>> \o buffer

SlidingWindow_add(buffer, record) == add(MonitorWindow(buffer), record).buffer

SlidingWindow_is_full(buffer) == is_full(MonitorWindow(buffer))

SlidingWindow_slide(buffer) == slide(MonitorWindow(buffer)).buffer

\* _align_features: astype(float) raises on a value float() rejects.
align_features_raises(buffer) == \E i \in 1..Len(buffer) : buffer[i].PROCESS_PARAMETER = "bad"

\* ------------------------------------------------------------------
\* Feature matrix of a window
\* ------------------------------------------------------------------
\* config.MODEL_FEATURE_CODES and config.FEATURES, the first two of the six.
MODEL_FEATURE_CODES == <<"001_A", "001_B">>

FEATURES == <<"Oil Temperature", "Water Activity">>

\* What PROCESS_PARAMETER can hold for one feature code: no such key, JSON
\* null, a number, a string float() accepts, a string float() rejects.
CellKinds == {"absent", "null", "num", "numstr", "bad"}

\* params.get(code): None for a missing key and for null.
params_get(params, code) == IF params[code] \in {"absent", "null"} THEN "None" ELSE params[code]

NoFrame == [raised |-> FALSE, columns |-> <<>>, rows |-> <<>>]

\* The call raised instead of returning a DataFrame.
RaisedFrame == [raised |-> TRUE, columns |-> <<>>, rows |-> <<>>]

\* SlidingWindow.to_dataframe: one row per buffered entry, one cell per
\* feature code; pd.DataFrame(rows) has the keys of the rows as columns (none
\* for an empty list) and df.columns = FEATURES raises on a length mismatch.
to_dataframe(self) ==
    LET rows == [i \in 1..Len(self.buffer) |->
                    [j \in 1..Len(MODEL_FEATURE_CODES) |->
                        params_get(self.buffer[i].PROCESS_PARAMETER, MODEL_FEATURE_CODES[j])]]
        width == IF Len(self.buffer) = 0 THEN 0 ELSE Len(MODEL_FEATURE_CODES)
    IN  IF width # Len(FEATURES) THEN RaisedFrame
        ELSE [raised |-> FALSE, columns |-> FEATURES, rows |-> rows]

\* Series.astype(float) on one cell: None becomes NaN, a number or a
\* numeric string becomes a float, any other string raises ValueError.
astype_float(value) ==
    CASE value = "None" -> "nan"
      [] value \in {"num", "numstr"} -> "float"
      [] value = "0.0" -> "0.0"
      [] OTHER -> "ValueError"

ColumnOf(df, col) == CHOOSE j \in 1..Len(df.columns) : df.columns[j] = col

\* _align_features: a column the frame lacks is created as 0.0, every
\* column of feature_names is cast to float, the frame is cut to
\* feature_names.
align_features(df, feature_names) ==
    LET has(col) == \E j \in 1..Len(df.columns) : df.columns[j] = col
        rows == [i \in 1..Len(df.rows) |->
                    [j \in 1..Len(feature_names) |->
                        IF has(feature_names[j])
                        THEN astype_float(df.rows[i][ColumnOf(df, feature_names[j])])
                        ELSE "0.0"]]
    IN  IF \E i \in 1..Len(rows) : \E j \in 1..Len(feature_names) : rows[i][j] = "ValueError"
        THEN RaisedFrame
        ELSE [raised |-> FALSE, columns |-> feature_names, rows |-> rows]

\* ------------------------------------------------------------------
\* Detector
\* ------------------------------------------------------------------
DetectOutcomes == {"predict", "scaler_failure", "model_failure", "raise"}

Rows == 0..(WINDOW_COUNT - 1)

\* The verdicts of the model that are tried: no row, the oldest row, every
\* row.
FlagSets == {{}, {0}, Rows}

\* detect_anomalies on a non-empty window: scaler and model failures are
\* answered in-result; flagged is the set of rows the model predicts -1 for.
\* "raise" is a failure outside the two guarded calls (the attribution).
detect_anomalies(detect, flagged, metadata) ==
    CASE detect = "raise" ->
           [raised |-> TRUE, is_anomaly |-> FALSE, reason |-> "none",
            anomaly_indices |-> {}, model_metadata |-> NoMetadata]
      [] detect = "scaler_failure" ->
           [raised |-> FALSE, is_anomaly |-> FALSE, reason |-> "SCALER_FAILURE",
            anomaly_indices |-> {}, model_metadata |-> NoMetadata]
      [] detect = "model_failure" ->
           [raised |-> FALSE, is_anomaly |-> FALSE, reason |-> "MODEL_FAILURE",
            anomaly_indices |-> {}, model_metadata |-> NoMetadata]
      [] OTHER ->
           [raised |-> FALSE, is_anomaly |-> flagged # {}, reason |-> "none",
            anomaly_indices |-> flagged, model_metadata |-> metadata]

\* _format_alert
format_alert(monitor_id, result) ==
    [monitorId |-> monitor_id, isAnomaly |-> TRUE,
     indices |-> result.anomaly_indices, modelMetadata |-> result.model_metadata]

\* ------------------------------------------------------------------
\* Operator state
\* ------------------------------------------------------------------
VARIABLES
    training_state,   \* self.training_state: dict monitor -> state
    windows,          \* self.windows: dict monitor -> buffer of records
    cache,            \* self.model_cache.cache, least recently used first
    store,            \* the bucket: monitor -> artifacts present
    trainCalls,       \* calls of build_model_for_device_v2 per monitor
    last,             \* what the last flat_map call did and yielded
    pc,               \* threads of the interleaved specification: position
    local,            \* ... and their local variables
    arrived,          \* readings accepted so far for each READY monitor
    sw,               \* a SlidingWindow object exercised on its own
    added,            \* the records added to sw since it was empty, in order
    slides,           \* slide() calls on sw since it was empty
    wop,              \* the last method called on sw
    df,               \* what to_dataframe returned for sw, and how often it was called
    aligned,          \* what _align_features returned for df
    mc,               \* a ModelCache object exercised on its own
    uses,             \* keys of the get() calls that returned since mc was empty
    gets,             \* get() calls made on mc
    clast,            \* what the last step on mc did
    cpc,              \* threads calling mc.get: position in get
    clocal,           \* ... and their local variables
    training,         \* a call of the trainer on given history rows, and what it did
    hist,             \* a call of TrendAPIClient.get_history, and what it did
    http,             \* a call of http_get in progress: its locals and what it sent
    tok,              \* the TokenManager objects of the process and the clock
    det               \* a call of detect_anomalies, and what it returned

vars ==
    <<training_state, windows, cache, store, trainCalls, last, pc, local,
      arrived, sw, added, slides, wop, df, aligned, mc, uses, gets, clast, cpc, clocal, training,
      hist, http, tok, det>>

opVars == <<training_state, windows, cache, store, trainCalls, last>>

thVars == <<pc, local>>

wnVars == <<sw, added, slides, wop>>

\* The variables of the components exercised on their own.
mxVars == <<df, aligned>>

mcVars == <<mc, uses, gets, clast, cpc, clocal>>

\* The clients of the external services and the detector.
apiVars == <<hist, http, tok>>

auxVars == <<mxVars, mcVars, training, apiVars, det>>

\* dict.get(key, default) and dict[key] = value
DictGet(d, key, default) == IF key \in DOMAIN d THEN d[key] ELSE default

\* dict[key] = value writing the value under every key.
DictSet_all(d, key, value) == [k \in DOMAIN d \cup {key} |-> value]

DictSet(d, key, value) == [k \in DOMAIN d \cup {key} |-> IF k = key THEN value ELSE d[k]]

EmptyDict == [k \in {} |-> 0]

NoCall ==
    [mon |-> 0, prev |-> "none", raised |-> FALSE, train |-> "none", post |-> "none",
     store |-> FALSE, cache |-> FALSE, added |-> FALSE, full |-> FALSE, load |-> "none",
     flagged |-> {}, fault |-> FALSE, result |-> "none", alerts |-> <<>>,
     window |-> <<>>, scored |-> NoMetadata]

NoLocal == [monitor_id |-> 0, state |-> "none", exists |-> "none", record |-> NoRecord]

\* No feature matrix was asked.
MatrixIdle ==
    /\ df = [n |-> 0, frame |-> NoFrame]
    /\ aligned = NoFrame

NoGet ==
    [op |-> "__init__", key |-> 0, error |-> "none", loaded |-> FALSE, before |-> <<>>,
     present |-> FALSE, old |-> 0, held |-> 0, after |-> 0, promoting |-> FALSE]

NoCacheLocal == [key |-> 0, call |-> 0, bundle |-> LoadFailure, error |-> "none"]

\* The cache object is idle: no call made, no thread in get.
CacheIdle ==
    /\ uses = <<>>
    /\ gets = 0
    /\ clast = NoGet
    /\ cpc = [t \in Threads |-> "idle"]
    /\ clocal = [t \in Threads |-> NoCacheLocal]

NoTraining ==
    [called |-> FALSE, monitor_id |-> 0, param_rows |-> <<>>, outcome |-> "none",
     rows |-> <<>>, rows_used |-> -1, raised |-> FALSE, logged |-> "none"]

\* The trainer was not called.
TrainerIdle == training = NoTraining

\* No history was asked.
NoHistory ==
    [called |-> FALSE, policy |-> "none", token |-> "none", response |-> "none",
     requests |-> 0, raised |-> "none", status |-> 0, records |-> <<>>]

\* http_get was not called.
NoHttp ==
    [pc |-> "idle", retries |-> 0, backoff |-> 0, attempt |-> 0, answers |-> <<>>,
     events |-> <<>>, returned |-> "none"]

\* The process holds no TokenManager yet; the clock is at 0.
NoTokenCall ==
    [op |-> "none", now |-> 0, margin |-> 0, fetched |-> FALSE, raised |-> "none",
     before |-> [token |-> 0, expires_at |-> 0], returned |-> [token |-> 0, expires_at |-> 0],
     lifetime |-> 0]

\* The process holds one TokenManager, which has no token yet; no token
\* was issued; the clock is at 0.
NoTokens ==
    [now |-> 0, manager |-> [token |-> 0, expires_at |-> 0], margin |-> 0, issued |-> 0,
     calls |-> 0, latest |-> [token |-> 0, expires_at |-> 0], last |-> NoTokenCall]

\* The clients of the external services are idle.
ApiIdle == hist = NoHistory /\ http = NoHttp /\ tok = NoTokens

\* What detect_anomalies returns when it has nothing to say.
NoResult ==
    [raised |-> "none", is_anomaly |-> FALSE, reason |-> "none", keys |-> {},
     anomaly_indices |-> <<>>, top_features |-> <<>>, model_metadata |-> <<>>]

NoDetection ==
    [called |-> FALSE, n |-> 0, columns |-> 0, feature_names |-> <<>>, outcome |-> "none",
     X_scaled |-> <<>>,
     preds |-> <<>>, top_idx |-> <<>>, result |-> NoResult]

\* The detector was not called.
DetectorIdle == det = NoDetection

\* The components exercised on their own are idle.
AuxIdle == MatrixIdle /\ mc = ModelCache(0) /\ CacheIdle /\ TrainerIdle /\ ApiIdle /\ DetectorIdle

Init ==
    /\ training_state = EmptyDict
    /\ windows = EmptyDict
    /\ cache = <<>>
    /\ store \in [Monitors -> InitialBundles]
    /\ trainCalls = [m \in Monitors |-> 0]
    /\ last = NoCall
    /\ pc = [t \in Threads |-> "idle"]
    /\ local = [t \in Threads |-> NoLocal]
    /\ arrived = [m \in Monitors |-> 0]
    /\ sw = SlidingWindow(WINDOW_COUNT, SLIDE_COUNT)
    /\ added = <<>>
    /\ slides = 0
    /\ wop = "__init__"
    /\ AuxIdle

\* ------------------------------------------------------------------
\* flat_map
\* ------------------------------------------------------------------
\* End of one flat_map call: the operator's fields, the bucket and the
\* record of the call.
Finish(ts, ws, ca, st, tc, tr) ==
    /\ training_state' = ts
    /\ windows' = ws
    /\ cache' = ca
    /\ store' = st
    /\ trainCalls' = tc
    /\ last' = tr

\* lifecycle_branch with a retry after failure: FAILED is checked again.
lifecycle_branch_retry(state) ==
    CASE state = "READY" -> "pass"
      [] state = "IN_PROGRESS" -> "return"
      [] OTHER -> "check"

\* lifecycle_branch dropping only while training is in flight: FAILED falls
\* through to the window like READY.
lifecycle_branch_failed_passes(state) ==
    CASE state \in {"READY", "FAILED"} -> "pass"
      [] state = "IN_PROGRESS" -> "return"
      [] OTHER -> "check"

\* Lines 79-85: what the state read from training_state selects.
lifecycle_branch(state) ==
    CASE state = "READY" -> "pass"
      [] state \in {"IN_PROGRESS", "FAILED"} -> "return"
      [] OTHER -> "check"

\* Lines 86-93: the state assigned after the first existence check.
state_after_check(exists) == IF exists = "true" THEN "READY" ELSE "IN_PROGRESS"

\* state_after_training forgetting the monitor when the call raised, so that
\* the next record starts over.
state_after_training_forget(raised, exists) ==
    IF raised THEN "NOT_STARTED"
    ELSE IF exists = "true" THEN "READY"
    ELSE IF exists = "false" THEN "FAILED"
    ELSE "IN_PROGRESS"

\* Lines 110-131: the state assigned once the training call is over.
\* raised: the call raised; exists: answer of the second existence check.
state_after_training(raised, exists) ==
    IF raised THEN "FAILED"
    ELSE IF exists = "true" THEN "READY"
    ELSE IF exists = "false" THEN "FAILED"
    ELSE "IN_PROGRESS"

\* emit without the is_anomaly test.
emit_unconditional(monitor_id, result) == <<format_alert(monitor_id, result)>>

\* Line 193: the alerts yielded for a detection result.
emit(monitor_id, result) ==
    IF result.is_anomaly THEN <<format_alert(monitor_id, result)>> ELSE <<>>

\* Lines 180-198: detection on the aligned window, slide, alert.
\* flagged: the rows the model flags when it is asked.
run_detection(monitor_id, ts, slid, ca, st, tc, tr, metadata) ==
    \E detect \in DetectOutcomes :
    \E flagged \in (IF detect = "predict" THEN FlagSets ELSE {{}}) :
        LET result == detect_anomalies(detect, flagged, metadata) IN
        IF result.raised
        THEN Finish(ts, slid, ca, st, tc,
                    [tr EXCEPT !.result = "raise", !.fault = TRUE, !.scored = metadata])
        ELSE Finish(ts, slid, ca, st, tc,
                    [tr EXCEPT !.scored = metadata,
                               !.result = IF result.is_anomaly THEN "anomaly"
                                          ELSE IF result.reason # "none" THEN result.reason
                                          ELSE "normal",
                               !.flagged = flagged,
                               !.fault = (detect # "predict"),
                               !.alerts = emit(monitor_id, result)])

\* Lines 151-175: the window is full: bundle from the cache, metadata
\* check, feature alignment.
score_window(monitor_id, ts, ws, st, tc, tr) ==
    \E head \in (IF monitor_id \in CacheKeys(cache) THEN {"answer"} ELSE HeadOutcomes) :
    \E io \in (IF monitor_id \in CacheKeys(cache) \/ head = "error" THEN {"ok"} ELSE IoOutcomes) :
        LET got == ModelCache_get(cache, st, monitor_id, head, io)
            slid == [ws EXCEPT ![monitor_id] = SlidingWindow_slide(ws[monitor_id])]
            fault == (head = "error" \/ io = "error")
            tr1 == [tr EXCEPT !.full = TRUE, !.cache = TRUE,
                              !.window = [i \in 1..Len(ws[monitor_id]) |-> ws[monitor_id][i].seq],
                              !.store = tr.store \/ got.loaded,
                              !.fault = fault]
        IN  IF got.bundle.raised
            THEN \E flagged \in (IF fault THEN {{}} ELSE FlagSets) :
                    Finish(ts, slid, got.cache, st, tc,
                           [tr1 EXCEPT !.load = "fail", !.flagged = flagged])
            ELSE IF got.bundle.metadata.feature_names # "names"
            THEN Finish(ts, slid, got.cache, st, tc,
                        [tr1 EXCEPT !.load = "ok", !.result = "invalid_metadata"])
            ELSE IF align_features_raises(ws[monitor_id])
            THEN Finish(ts, ws, got.cache, st, tc,
                        [tr1 EXCEPT !.load = "ok", !.raised = TRUE])
            ELSE run_detection(monitor_id, ts, slid, got.cache, st, tc,
                               [tr1 EXCEPT !.load = "ok"], got.bundle.metadata)

\* Lines 136-146: window setup, add, fullness check.
buffer_record(monitor_id, record, ts, st, tc, tr) ==
    LET ws1 == IF monitor_id \in DOMAIN windows THEN windows
               ELSE DictSet(windows, monitor_id, <<>>)
        ws2 == [ws1 EXCEPT ![monitor_id] = SlidingWindow_add(ws1[monitor_id], record)]
        tr1 == [tr EXCEPT !.added = TRUE]
    IN  IF ~SlidingWindow_is_full(ws2[monitor_id])
        THEN Finish(ts, ws2, cache, st, tc, tr1)
        ELSE score_window(monitor_id, ts, ws2, st, tc, tr1)

\* train_once returning once the monitor is READY, the record that asked
\* for the training being left out of the window.
train_once_return(monitor_id, record, tr) ==
    /\ trainCalls[monitor_id] < MaxTrainCalls
    /\ \E outcome \in TrainOutcomes :
        LET ts1 == DictSet(training_state, monitor_id, "IN_PROGRESS")
            st1 == build_model_for_device_v2(store, monitor_id, outcome)
            tc1 == [trainCalls EXCEPT ![monitor_id] = @ + 1]
            tr1 == [tr EXCEPT !.train = outcome, !.store = TRUE]
        IN  IF outcome = "acquire_raise"
            THEN Finish(DictSet(ts1, monitor_id, state_after_training(TRUE, "none")),
                        windows, cache, st1, tc1, tr1)
            ELSE \E head \in HeadOutcomes :
                    LET exists == model_exists(st1, monitor_id, head)
                        ts2 == DictSet(ts1, monitor_id, state_after_training(FALSE, exists))
                        tr2 == [tr1 EXCEPT !.post = exists]
                    IN  CASE exists = "raise" ->
                               Finish(ts2, windows, cache, st1, tc1,
                                      [tr2 EXCEPT !.raised = TRUE, !.fault = TRUE])
                          [] OTHER ->
                               Finish(ts2, windows, cache, st1, tc1, tr2)

\* Lines 100-131: the training call and the second existence check.
train_once(monitor_id, record, tr) ==
    /\ trainCalls[monitor_id] < MaxTrainCalls
    /\ \E outcome \in TrainOutcomes :
        LET ts1 == DictSet(training_state, monitor_id, "IN_PROGRESS")
            st1 == build_model_for_device_v2(store, monitor_id, outcome)
            tc1 == [trainCalls EXCEPT ![monitor_id] = @ + 1]
            tr1 == [tr EXCEPT !.train = outcome, !.store = TRUE]
        IN  IF outcome = "acquire_raise"
            THEN Finish(DictSet(ts1, monitor_id, state_after_training(TRUE, "none")),
                        windows, cache, st1, tc1, tr1)
            ELSE \E head \in HeadOutcomes :
                    LET exists == model_exists(st1, monitor_id, head)
                        ts2 == DictSet(ts1, monitor_id, state_after_training(FALSE, exists))
                        tr2 == [tr1 EXCEPT !.post = exists]
                    IN  CASE exists = "raise" ->
                               Finish(ts2, windows, cache, st1, tc1,
                                      [tr2 EXCEPT !.raised = TRUE, !.fault = TRUE])
                          [] exists = "true" ->
                               buffer_record(monitor_id, record, ts2, st1, tc1, tr2)
                          [] OTHER ->
                               Finish(ts2, windows, cache, st1, tc1, tr2)

\* Lines 77-131: the training state machine.
lifecycle(monitor_id, record, tr) ==
    LET state == DictGet(training_state, monitor_id, "NOT_STARTED")
        branch == lifecycle_branch(state)
        tr1 == [tr EXCEPT !.mon = monitor_id, !.prev = state]
    IN  CASE branch = "pass" ->
               buffer_record(monitor_id, record, training_state, store, trainCalls, tr1)
          [] branch = "return" ->
               Finish(training_state, windows, cache, store, trainCalls, tr1)
          [] OTHER ->
               \E head \in HeadOutcomes :
                   LET exists == model_exists(store, monitor_id, head)
                       tr2 == [tr1 EXCEPT !.store = TRUE]
                   IN  CASE exists = "raise" ->
                              Finish(training_state, windows, cache, store, trainCalls,
                                     [tr2 EXCEPT !.raised = TRUE, !.fault = TRUE])
                         [] exists = "true" ->
                              buffer_record(monitor_id, record,
                                            DictSet(training_state, monitor_id, state_after_check(exists)),
                                            store, trainCalls, tr2)
                         [] OTHER ->
                              train_once(monitor_id, record, tr2)

\* flat_map treating a device that cannot be resolved as a failed
\* training of its monitor.
flat_map_mark_unresolved(value) ==
    LET record == safe_json_parse(value) IN
    IF ~record.truthy
    THEN Finish(training_state, windows, cache, store, trainCalls, NoCall)
    ELSE IF record.type # "dict"
    THEN Finish(training_state, windows, cache, store, trainCalls,
                [NoCall EXCEPT !.raised = TRUE])
    ELSE IF record.DEVICEID = 0
    THEN Finish(training_state, windows, cache, store, trainCalls, NoCall)
    ELSE \E resolved \in BOOLEAN :
            IF ~resolved
            THEN Finish(DictSet(training_state, get_monitor_id_runtime(record.DEVICEID), "FAILED"),
                        windows, cache, store, trainCalls, [NoCall EXCEPT !.fault = TRUE])
            ELSE lifecycle(get_monitor_id_runtime(record.DEVICEID), record, NoCall)

\* MultiModelAnomalyOperator.flat_map(value), run to completion.
flat_map(value) ==
    LET record == safe_json_parse(value) IN
    IF ~record.truthy
    THEN Finish(training_state, windows, cache, store, trainCalls, NoCall)
    ELSE IF record.type # "dict"
    THEN Finish(training_state, windows, cache, store, trainCalls,
                [NoCall EXCEPT !.raised = TRUE])
    ELSE IF record.DEVICEID = 0
    THEN Finish(training_state, windows, cache, store, trainCalls, NoCall)
    ELSE \E resolved \in BOOLEAN :
            IF ~resolved
            THEN Finish(training_state, windows, cache, store, trainCalls,
                        [NoCall EXCEPT !.fault = TRUE])
            ELSE lifecycle(get_monitor_id_runtime(record.DEVICEID), record, NoCall)

FlatMap ==
    /\ \E value \in Messages : flat_map(value)
    /\ UNCHANGED <<thVars, wnVars, arrived, auxVars>>

Next == FlatMap

Spec == Init /\ [][Next]_vars

\* ------------------------------------------------------------------
\* flat_map called from several threads on one operator instance: the
\* same code, one step per statement group between two blocking calls.
\* ------------------------------------------------------------------
Goto(t, label, loc) ==
    /\ pc' = [pc EXCEPT ![t] = label]
    /\ local' = [local EXCEPT ![t] = loc]

\* Lines 53-77: parse, resolve, state = self.training_state.get(...).
t_read(t) ==
    /\ pc[t] = "idle"
    /\ UNCHANGED <<wnVars, arrived, auxVars>>
    /\ \E d \in Devices :
        LET record == safe_json_parse(Reading(d, "num", 0))
            monitor_id == get_monitor_id_runtime(record.DEVICEID)
        IN  Goto(t, "dispatch",
                 [monitor_id |-> monitor_id,
                  state |-> DictGet(training_state, monitor_id, "NOT_STARTED"),
                  exists |-> "none",
                  record |-> record])
    /\ UNCHANGED opVars

\* Lines 79-86: branch on the state read; first existence check.
t_dispatch(t) ==
    /\ pc[t] = "dispatch"
    /\ UNCHANGED <<wnVars, arrived, auxVars>>
    /\ LET branch == lifecycle_branch(local[t].state) IN
       CASE branch = "pass" -> Goto(t, "buffer", local[t])
         [] branch = "return" -> Goto(t, "idle", NoLocal)
         [] OTHER ->
              \E head \in HeadOutcomes :
                  LET exists == model_exists(store, local[t].monitor_id, head) IN
                  IF exists = "raise" THEN Goto(t, "idle", NoLocal)
                  ELSE Goto(t, "assign", [local[t] EXCEPT !.exists = exists])
    /\ UNCHANGED opVars

\* Line 87 or 93: self.training_state[monitor_id] = "READY" / "IN_PROGRESS".
t_assign(t) ==
    /\ pc[t] = "assign"
    /\ UNCHANGED <<wnVars, arrived, auxVars>>
    /\ training_state' = DictSet(training_state, local[t].monitor_id,
                                 state_after_check(local[t].exists))
    /\ Goto(t, IF local[t].exists = "true" THEN "buffer" ELSE "train", local[t])
    /\ UNCHANGED <<windows, cache, store, trainCalls, last>>

\* Lines 100-117: the training call.
t_train(t) ==
    /\ pc[t] = "train"
    /\ UNCHANGED <<wnVars, arrived, auxVars>>
    /\ trainCalls[local[t].monitor_id] < MaxTrainCalls
    /\ \E outcome \in TrainOutcomes :
        /\ store' = build_model_for_device_v2(store, local[t].monitor_id, outcome)
        /\ trainCalls' = [trainCalls EXCEPT ![local[t].monitor_id] = @ + 1]
        /\ IF outcome = "acquire_raise"
           THEN /\ training_state' = DictSet(training_state, local[t].monitor_id,
                                             state_after_training(TRUE, "none"))
                /\ Goto(t, "idle", NoLocal)
           ELSE /\ UNCHANGED training_state
                /\ Goto(t, "postcheck", local[t])
    /\ UNCHANGED <<windows, cache, last>>

\* Lines 119-131: second existence check and the state it assigns.
t_postcheck(t) ==
    /\ pc[t] = "postcheck"
    /\ UNCHANGED <<wnVars, arrived, auxVars>>
    /\ \E head \in HeadOutcomes :
        LET exists == model_exists(store, local[t].monitor_id, head) IN
        /\ training_state' = IF exists = "raise" THEN training_state
                             ELSE DictSet(training_state, local[t].monitor_id,
                                          state_after_training(FALSE, exists))
        /\ IF exists = "true" THEN Goto(t, "buffer", local[t])
           ELSE Goto(t, "idle", NoLocal)
    /\ UNCHANGED <<windows, cache, store, trainCalls, last>>

\* Lines 136-198: buffering and scoring.
t_buffer(t) ==
    /\ pc[t] = "buffer"
    /\ UNCHANGED <<wnVars, arrived, auxVars>>
    /\ buffer_record(local[t].monitor_id, local[t].record, training_state, store, trainCalls,
                     [NoCall EXCEPT !.mon = local[t].monitor_id, !.prev = local[t].state])
    /\ Goto(t, "idle", NoLocal)

NextThreads ==
    \E t \in Threads :
        \/ t_read(t)
        \/ t_dispatch(t)
        \/ t_assign(t)
        \/ t_train(t)
        \/ t_postcheck(t)
        \/ t_buffer(t)

\* The monitors are new: nothing in the bucket for them yet.
InitThreads == Init /\ store = [m \in Monitors |-> EmptyBundle]

SpecThreads == InitThreads /\ [][NextThreads]_vars

\* ------------------------------------------------------------------
\* The operator fed with numbered readings: every reading offered for a
\* device carries the rank it will have among the readings accepted for
\* its monitor (a reading that is dropped leaves the rank to the next).
\* A reading is accepted when it is resolved to the monitor and the
\* monitor is READY once its lifecycle branch has run.
\* ------------------------------------------------------------------
Arrive ==
    /\ \E value \in {v \in Messages : v.kind = "reading"} :
        LET m == get_monitor_id_runtime(value.dev) IN
        /\ arrived[m] < MaxArrivals
        /\ flat_map(Reading(value.dev, value.param, arrived[m] + 1))
        /\ arrived' = [arrived EXCEPT ![m] =
                          IF last'.mon = m /\ DictGet(training_state', m, "NOT_STARTED") = "READY"
                          THEN @ + 1 ELSE @]
    /\ UNCHANGED <<thVars, wnVars, auxVars>>

NextOrdered == Arrive

\* Every monitor has a usable bundle in the bucket.
InitOrdered == Init /\ store = [m \in Monitors |-> FullBundle(Metadata("SUCCESS", "names"))]

SpecOrdered == InitOrdered /\ [][NextOrdered]_vars

\* ------------------------------------------------------------------
\* A SlidingWindow on its own: any window_size and slide_size, any
\* sequence of add, slide and reset. Records are numbered in the order
\* they are added.
\* ------------------------------------------------------------------
w_add ==
    /\ Len(added) < MaxAdds
    /\ sw' = add(sw, Len(added) + 1)
    /\ added' = Append(added, Len(added) + 1)
    /\ wop' = "add"
    /\ UNCHANGED <<slides, opVars, thVars, arrived, auxVars>>

w_slide ==
    /\ sw' = slide(sw)
    /\ slides' = Min(slides + 1, 2)
    /\ wop' = "slide"
    /\ UNCHANGED <<added, opVars, thVars, arrived, auxVars>>

w_reset ==
    /\ sw' = reset(sw)
    /\ added' = <<>>
    /\ slides' = 0
    /\ wop' = "reset"
    /\ UNCHANGED <<opVars, thVars, arrived, auxVars>>

NextWindow == w_add \/ w_slide \/ w_reset

InitWindow ==
    /\ training_state = EmptyDict
    /\ windows = EmptyDict
    /\ cache = <<>>
    /\ store = [m \in Monitors |-> EmptyBundle]
    /\ trainCalls = [m \in Monitors |-> 0]
    /\ last = NoCall
    /\ pc = [t \in Threads |-> "idle"]
    /\ local = [t \in Threads |-> NoLocal]
    /\ arrived = [m \in Monitors |-> 0]
    /\ \E window_size \in 1..MaxWindowSize, slide_size \in 1..MaxSlideSize :
          sw = SlidingWindow(window_size, slide_size)
    /\ added = <<>>
    /\ slides = 0
    /\ wop = "__init__"
    /\ AuxIdle

SpecWindow == InitWindow /\ [][NextWindow]_vars

\* ------------------------------------------------------------------
\* The feature matrix of a window on its own: any buffer of at most
\* MaxRows entries, any content of PROCESS_PARAMETER.
\* ------------------------------------------------------------------
ParamDicts == [{MODEL_FEATURE_CODES[j] : j \in 1..Len(MODEL_FEATURE_CODES)} -> CellKinds]

Buffers == UNION {[1..n -> {[PROCESS_PARAMETER |-> p] : p \in ParamDicts}] : n \in 0..MaxRows}

\* to_dataframe emptying the buffer it reads.
m_to_dataframe_draining ==
    /\ df.n < MaxFrameCalls
    /\ df' = [n |-> df.n + 1, frame |-> to_dataframe(sw)]
    /\ sw' = reset(sw)
    /\ wop' = "to_dataframe"
    /\ UNCHANGED <<aligned, added, slides, opVars, thVars, arrived, mcVars, training, apiVars, det>>

\* window.to_dataframe(): the buffer is iterated, not modified.
m_to_dataframe ==
    /\ df.n < MaxFrameCalls
    /\ df' = [n |-> df.n + 1, frame |-> to_dataframe(sw)]
    /\ sw' = sw
    /\ wop' = "to_dataframe"
    /\ UNCHANGED <<aligned, added, slides, opVars, thVars, arrived, mcVars, training, apiVars, det>>

\* self._align_features(df, feature_names) on the frame just built, with the
\* feature list the trainer records.
m_align_features ==
    /\ wop = "to_dataframe"
    /\ ~df.frame.raised
    /\ aligned' = align_features(df.frame, FEATURES)
    /\ wop' = "_align_features"
    /\ UNCHANGED <<df, sw, added, slides, opVars, thVars, arrived, mcVars, training, apiVars, det>>

NextMatrix == m_to_dataframe \/ m_align_features

InitMatrix ==
    /\ training_state = EmptyDict
    /\ windows = EmptyDict
    /\ cache = <<>>
    /\ store = [m \in Monitors |-> EmptyBundle]
    /\ trainCalls = [m \in Monitors |-> 0]
    /\ last = NoCall
    /\ pc = [t \in Threads |-> "idle"]
    /\ local = [t \in Threads |-> NoLocal]
    /\ arrived = [m \in Monitors |-> 0]
    /\ \E buffer \in Buffers : sw = [SlidingWindow(MaxRows, 1) EXCEPT !.buffer = buffer]
    /\ added = <<>>
    /\ slides = 0
    /\ wop = "__init__"
    /\ MatrixIdle
    /\ mc = ModelCache(0)
    /\ CacheIdle
    /\ TrainerIdle
    /\ ApiIdle
    /\ DetectorIdle

SpecMatrix == InitMatrix /\ [][NextMatrix]_vars

\* ------------------------------------------------------------------
\* A ModelCache on its own: any max_size, get() for keys whose bundle
\* loads, for a key the bucket has nothing for and for a key whose
\* metadata is rejected, and clear().
\* ------------------------------------------------------------------
GoodKeys == 1..NumGoodKeys

MissingKey == NumGoodKeys + 1

InvalidKey == NumGoodKeys + 2

CacheKeySet == GoodKeys \cup {MissingKey, InvalidKey}

\* The bucket the cache loads from.
CacheStore ==
    [k \in CacheKeySet |->
        CASE k = MissingKey -> EmptyBundle
          [] k = InvalidKey -> FullBundle(TrainerMetadata)
          [] OTHER -> FullBundle(Metadata("SUCCESS", "names"))]

\* A step on mc outside get: the trace of a get step, blank.
GetTrace(op, key) == [NoGet EXCEPT !.op = op, !.key = key]

c_get ==
    /\ gets < MaxGets
    /\ \E k \in CacheKeySet, head \in HeadOutcomes, io \in IoOutcomes :
        LET got == get(mc, CacheStore, k, head, io) IN
        /\ mc' = got.self
        /\ uses' = IF got.error = "none" THEN Append(uses, k) ELSE uses
        /\ clast' = [GetTrace("get", k) EXCEPT !.error = got.error, !.loaded = got.loaded,
                                                !.before = mc.cache]
    /\ gets' = gets + 1
    /\ UNCHANGED <<cpc, clocal, opVars, thVars, arrived, wnVars, mxVars, training,
                   apiVars, det>>

c_clear ==
    /\ mc' = clear(mc)
    /\ uses' = <<>>
    /\ clast' = [GetTrace("clear", 0) EXCEPT !.before = mc.cache]
    /\ UNCHANGED <<gets, cpc, clocal, opVars, thVars, arrived, wnVars, mxVars, training,
                   apiVars, det>>

NextCache == c_get \/ c_clear

\* Everything but the cache object at rest.
RestIdle ==
    /\ training_state = EmptyDict
    /\ windows = EmptyDict
    /\ cache = <<>>
    /\ store = [m \in Monitors |-> EmptyBundle]
    /\ trainCalls = [m \in Monitors |-> 0]
    /\ last = NoCall
    /\ pc = [t \in Threads |-> "idle"]
    /\ local = [t \in Threads |-> NoLocal]
    /\ arrived = [m \in Monitors |-> 0]
    /\ sw = SlidingWindow(WINDOW_COUNT, SLIDE_COUNT)
    /\ added = <<>>
    /\ slides = 0
    /\ wop = "__init__"
    /\ MatrixIdle

InitCache ==
    /\ RestIdle
    /\ \E max_size \in 1..MaxCacheSize : mc = ModelCache(max_size)
    /\ CacheIdle
    /\ TrainerIdle
    /\ ApiIdle
    /\ DetectorIdle

SpecCache == InitCache /\ [][NextCache]_vars

\* ------------------------------------------------------------------
\* get() called on one ModelCache from several threads: the same code,
\* one step per dictionary operation or store read. No statement of get
\* takes a lock.
\* ------------------------------------------------------------------
CacheGoto(t, label, loc) ==
    /\ cpc' = [cpc EXCEPT ![t] = label]
    /\ clocal' = [clocal EXCEPT ![t] = loc]

CacheFrame == UNCHANGED <<uses, opVars, thVars, arrived, wnVars, mxVars, training, apiVars, det>>

\* Line 70: if monitor_id in self.cache.
g_check(t) ==
    /\ cpc[t] = "idle"
    /\ gets < MaxGets
    /\ gets' = gets + 1
    /\ \E k \in CacheKeySet :
        /\ CacheGoto(t, IF k \in CacheKeys(mc.cache) THEN "pop" ELSE "load",
                      [NoCacheLocal EXCEPT !.key = k, !.call = gets + 1])
        /\ clast' = [GetTrace("check", k) EXCEPT
                        !.promoting = /\ k \notin CacheKeys(mc.cache)
                                      /\ \E u \in Threads \ {t} :
                                            cpc[u] = "reinsert" /\ clocal[u].key = k]
    /\ UNCHANGED mc
    /\ CacheFrame

\* Line 71: model_bundle = self.cache.pop(monitor_id); KeyError when the
\* key is gone.
g_pop(t) ==
    /\ cpc[t] = "pop"
    /\ LET k == clocal[t].key IN
       IF k \in CacheKeys(mc.cache)
       THEN /\ mc' = [mc EXCEPT !.cache = CacheWithout(mc.cache, k)]
            /\ CacheGoto(t, "reinsert",
                          [clocal[t] EXCEPT !.bundle = mc.cache[CacheEntry(mc.cache, k)].bundle])
            /\ clast' = GetTrace("pop", k)
       ELSE /\ UNCHANGED mc
            /\ CacheGoto(t, "idle", [clocal[t] EXCEPT !.error = "KeyError"])
            /\ clast' = [GetTrace("pop", k) EXCEPT !.error = "KeyError"]
    /\ UNCHANGED gets
    /\ CacheFrame

\* Lines 72-74: self.cache[monitor_id] = model_bundle; return.
g_reinsert(t) ==
    /\ cpc[t] = "reinsert"
    /\ mc' = [mc EXCEPT !.cache = OrderedDict_set(mc.cache, clocal[t].key, clocal[t].bundle)]
    /\ CacheGoto(t, "idle", clocal[t])
    /\ clast' = GetTrace("reinsert", clocal[t].key)
    /\ UNCHANGED gets
    /\ CacheFrame

\* Line 80: model_bundle = load_model_bundle(monitor_id): a new object at
\* every call.
g_load(t) ==
    /\ cpc[t] = "load"
    /\ \E head \in HeadOutcomes, io \in IoOutcomes :
        LET k == clocal[t].key
            model_bundle == load_model_bundle(CacheStore, k, head, io)
            error == load_model_bundle_error(CacheStore, k, head, io)
        IN  IF model_bundle.raised
            THEN /\ CacheGoto(t, "idle", [clocal[t] EXCEPT !.error = error])
                 /\ clast' = [GetTrace("load", k) EXCEPT !.error = error, !.loaded = TRUE]
            ELSE /\ CacheGoto(t, "insert",
                               [clocal[t] EXCEPT !.bundle =
                                   [raised |-> FALSE, metadata |-> model_bundle.metadata,
                                    obj |-> clocal[t].call]])
                 /\ clast' = [GetTrace("load", k) EXCEPT !.loaded = TRUE]
    /\ UNCHANGED <<mc, gets>>
    /\ CacheFrame

\* Line 83: self.cache[monitor_id] = model_bundle.
g_insert(t) ==
    /\ cpc[t] = "insert"
    /\ LET k == clocal[t].key
           present == k \in CacheKeys(mc.cache)
           inserted == OrderedDict_set(mc.cache, k, clocal[t].bundle)
       IN  /\ mc' = [mc EXCEPT !.cache = inserted]
           /\ clast' = [GetTrace("insert", k) EXCEPT
                           !.present = present,
                           !.old = IF present THEN mc.cache[CacheEntry(mc.cache, k)].bundle.obj
                                   ELSE 0,
                           !.after = inserted[CacheEntry(inserted, k)].bundle.obj,
                           !.held = clocal[t].bundle.obj]
    /\ CacheGoto(t, "evict", clocal[t])
    /\ UNCHANGED gets
    /\ CacheFrame

\* Lines 86-90: evict if over capacity; return model_bundle.
g_evict(t) ==
    /\ cpc[t] = "evict"
    /\ mc' = [mc EXCEPT !.cache = IF Len(mc.cache) > mc.max_size
                                   THEN OrderedDict_popitem(mc.cache)
                                   ELSE mc.cache]
    /\ CacheGoto(t, "idle", clocal[t])
    /\ clast' = GetTrace("evict", clocal[t].key)
    /\ UNCHANGED gets
    /\ CacheFrame

NextCacheThreads ==
    \E t \in Threads :
        \/ g_check(t)
        \/ g_pop(t)
        \/ g_reinsert(t)
        \/ g_load(t)
        \/ g_insert(t)
        \/ g_evict(t)

SpecCacheThreads == InitCache /\ [][NextCacheThreads]_vars

\* ------------------------------------------------------------------
\* The trainer on its own: _train_single_monitor on any history of at
\* most MaxTrainRows rows, for a monitor without artifacts.
\* ------------------------------------------------------------------
\* config.MODEL_FEATURE_NAME_MAP: feature code -> feature name.
MODEL_FEATURE_NAME_MAP ==
    [code \in {MODEL_FEATURE_CODES[j] : j \in 1..Len(MODEL_FEATURE_CODES)} |->
        FEATURES[CHOOSE j \in 1..Len(MODEL_FEATURE_CODES) : MODEL_FEATURE_CODES[j] = code]]

MODEL_FEATURE_NAMES_ORDERED ==
    [j \in 1..Len(MODEL_FEATURE_CODES) |-> MODEL_FEATURE_NAME_MAP[MODEL_FEATURE_CODES[j]]]

\* The loop over the codes passing over a code without value.
RECURSIVE feature_loop_continue(_, _, _)
feature_loop_continue(params, j, filtered) ==
    IF j > Len(MODEL_FEATURE_CODES) THEN [else |-> TRUE, filtered |-> filtered]
    ELSE LET code == MODEL_FEATURE_CODES[j]
             value == params_get(params, code)
         IN  IF value = "None" THEN feature_loop_continue(params, j + 1, filtered)
             ELSE feature_loop_continue(params, j + 1,
                                        DictSet(filtered, MODEL_FEATURE_NAME_MAP[code], value))

\* for code in MODEL_FEATURE_CODES ... else: from the j-th code on. The
\* loop breaks at the first code whose value is None; the else branch is
\* taken when it did not break.
RECURSIVE feature_loop(_, _, _)
feature_loop(params, j, filtered) ==
    IF j > Len(MODEL_FEATURE_CODES) THEN [else |-> TRUE, filtered |-> filtered]
    ELSE LET code == MODEL_FEATURE_CODES[j]
             value == params_get(params, code)
         IN  IF value = "None" THEN [else |-> FALSE, filtered |-> filtered]
             ELSE feature_loop(params, j + 1,
                               DictSet(filtered, MODEL_FEATURE_NAME_MAP[code], value))

\* for params in param_rows: rows.append(filtered) in the else branch.
RECURSIVE valid_rows(_, _)
valid_rows(param_rows, rows) ==
    IF param_rows = <<>> THEN rows
    ELSE LET looped == feature_loop(Head(param_rows), 1, EmptyDict)
         IN  valid_rows(Tail(param_rows),
                        IF looped.else THEN Append(rows, looped.filtered) ELSE rows)

\* pd.DataFrame(rows)[MODEL_FEATURE_NAMES_ORDERED]: one line per row, the
\* columns in the order of the names, NaN where a row has no such key.
train_df(rows) ==
    [i \in 1..Len(rows) |->
        [j \in 1..Len(MODEL_FEATURE_NAMES_ORDERED) |->
            DictGet(rows[i], MODEL_FEATURE_NAMES_ORDERED[j], "nan")]]

\* What the fit and the persistence steps can do once there are rows.
FitOutcomes == TrainerOutcomes \ {"no_valid_rows"}

\* _train_single_monitor(monitor_id, parameter_group_id, param_rows): the
\* rows are filtered; without a valid row the function logs a warning and
\* returns; otherwise the model is fitted, metadata (with rows_used) is
\* built and the three artifacts are written. Every exception is caught
\* and logged as an error: the function returns None and raises nothing.
train_param_rows(st, monitor_id, param_rows, outcome) ==
    LET kept == valid_rows(param_rows, <<>>)
        frame == train_df(kept)
    IN  IF kept = <<>>
        THEN [store |-> train_single_monitor(st, monitor_id, "no_valid_rows"),
              rows |-> <<>>, rows_used |-> -1, raised |-> FALSE, logged |-> "warning"]
        ELSE [store |-> train_single_monitor(st, monitor_id, outcome),
              rows |-> frame,
              rows_used |-> IF outcome = "fit_error" THEN -1 ELSE Len(frame),
              raised |-> FALSE,
              logged |-> IF outcome = "ok" THEN "info" ELSE "error"]

\* What a history row can hold for one feature code: no such key, null, a
\* number, a numeric string.
TrainCells == {"absent", "null", "num", "numstr"}

TrainRows == [{MODEL_FEATURE_CODES[j] : j \in 1..Len(MODEL_FEATURE_CODES)} -> TrainCells]

Histories == UNION {[1..n -> TrainRows] : n \in 0..MaxTrainRows}

t_train_single_monitor ==
    /\ ~training.called
    /\ \E monitor_id \in Monitors, outcome \in FitOutcomes :
        LET done == train_param_rows(store, monitor_id, training.param_rows, outcome) IN
        /\ store' = done.store
        /\ training' = [called |-> TRUE, monitor_id |-> monitor_id, param_rows |-> training.param_rows,
                  outcome |-> IF done.rows = <<>> THEN "no_valid_rows" ELSE outcome,
                  rows |-> done.rows, rows_used |-> done.rows_used,
                  raised |-> done.raised, logged |-> done.logged]
    /\ UNCHANGED <<training_state, windows, cache, trainCalls, last, thVars, arrived,
                   wnVars, mxVars, mcVars, apiVars, det>>

NextTrainer == t_train_single_monitor

InitTrainer ==
    /\ RestIdle
    /\ mc = ModelCache(0)
    /\ CacheIdle
    /\ \E param_rows \in Histories : training = [NoTraining EXCEPT !.param_rows = param_rows]
    /\ ApiIdle
    /\ DetectorIdle

SpecTrainer == InitTrainer /\ [][NextTrainer]_vars

\* ------------------------------------------------------------------
\* History acquisition: TrendAPIClient.get_history on its own, for any
\* answer of the token endpoint and of the trend API.
\* ------------------------------------------------------------------
\* The sub-ranges of the requested time range, in chronological order.
Chunks == 1..NumChunks

\* What the jsonavg of a reading holds: a JSON object, text json.loads
\* rejects (or no jsonavg key), or JSON that is not an object.
ReadingKinds == {"object", "unparseable", "scalar"}

TrendReadings == [time : Chunks, jsonavg : ReadingKinds]

\* The readings of a response, in chronological order.
ReadingLists ==
    {r \in UNION {[1..n -> TrendReadings] : n \in 0..MaxReadings} :
        \A i, k \in 1..Len(r) : i < k => r[i].time <= r[k].time}

\* What requests.post gives: RequestException (status_code -1), or a
\* response with a status and a body.
TrendResponses ==
    {[status_code |-> c, body |-> "none", readings |-> <<>>] : c \in {-1, 401, 500}}
    \cup {[status_code |-> 200, body |-> b, readings |-> <<>>] : b \in {"invalid_json", "no_monitors"}}
    \cup {[status_code |-> 200, body |-> "monitors", readings |-> r] : r \in ReadingLists}

\* for r in readings: an unparseable jsonavg is skipped; the assignment
\* values["timestamp"] = ... on a value that is not a dict raises TypeError
\* outside the try; otherwise the record is appended.
RECURSIVE normalize(_, _)
normalize(readings, normalized) ==
    IF readings = <<>> THEN [raised |-> "none", normalized |-> normalized]
    ELSE LET r == Head(readings) IN
         CASE r.jsonavg = "unparseable" -> normalize(Tail(readings), normalized)
           [] r.jsonavg = "scalar" -> [raised |-> "TypeError", normalized |-> normalized]
           [] OTHER -> normalize(Tail(readings), Append(normalized, [timestamp |-> r.time]))

\* get_history raised: nothing is returned.
HistoryRaised(error, status, requests) ==
    [raised |-> error, status |-> status, records |-> <<>>, requests |-> requests]

\* TrendAPIClient.get_history(monitor_id): the token, then one POST for
\* the whole fixed range; every failure of the request or of its payload
\* is an APICallError, a failure of the token endpoint propagates as it is.
get_history(token, response) ==
    IF token # "ok" THEN HistoryRaised(token, 0, 0)
    ELSE IF response.status_code = -1 THEN HistoryRaised("APICallError", -1, 1)
    ELSE IF response.status_code = 401 THEN HistoryRaised("APICallError", 401, 1)
    ELSE IF response.status_code # 200 THEN HistoryRaised("APICallError", response.status_code, 1)
    ELSE IF response.body = "invalid_json" THEN HistoryRaised("APICallError", 200, 1)
    ELSE IF response.body = "no_monitors" THEN HistoryRaised("APICallError", 200, 1)
    ELSE IF response.readings = <<>> THEN HistoryRaised("APICallError", 200, 1)
    ELSE LET looped == normalize(response.readings, <<>>) IN
         IF looped.raised # "none" THEN HistoryRaised(looped.raised, 0, 1)
         ELSE IF looped.normalized = <<>> THEN HistoryRaised("APICallError", 200, 1)
         ELSE [raised |-> "none", status |-> 200, records |-> looped.normalized, requests |-> 1]

\* The acquisition policies of the specification; no setting of the
\* configuration and no parameter of get_history carries one.
Policies == {"strict", "best_effort"}

\* What token_manager.get_token() does: a token, or the error of the
\* token endpoint.
TokenOutcomes == {"ok", "HTTPError"}

h_get_history ==
    /\ ~hist.called
    /\ LET got == get_history(hist.token, hist.response) IN
       hist' = [hist EXCEPT !.called = TRUE, !.requests = got.requests, !.raised = got.raised,
                            !.status = got.status, !.records = got.records]
    /\ UNCHANGED <<opVars, thVars, arrived, wnVars, mxVars, mcVars, training, http, tok, det>>

NextHistory == h_get_history

\* Everything but the clients and the detector at rest.
CoreIdle == RestIdle /\ mc = ModelCache(0) /\ CacheIdle /\ TrainerIdle

InitHistory ==
    /\ CoreIdle
    /\ \E policy \in Policies, token \in TokenOutcomes, response \in TrendResponses :
          hist = [NoHistory EXCEPT !.policy = policy, !.token = token, !.response = response]
    /\ http = NoHttp
    /\ tok = NoTokens
    /\ DetectorIdle

SpecHistory == InitHistory /\ [][NextHistory]_vars

\* ------------------------------------------------------------------
\* http_get on its own: any retries and backoff, any answer to each
\* request. One step per turn of the while loop.
\* ------------------------------------------------------------------
\* What requests.get gives: a response with a status, or an exception.
HttpAnswers == {200, 401, 500, -1, -2}

Timeout == -1

RequestException == -2

\* One turn of the loop sleeping after every failed attempt.
http_get_turn_sleep_always(self, answer) ==
    LET sent == [self EXCEPT !.answers = Append(@, answer),
                             !.events = Append(@, [kind |-> "request", n |-> self.attempt])]
    IN  IF answer = 200
        THEN [sent EXCEPT !.pc = "done", !.returned = "response"]
        ELSE [sent EXCEPT !.events = Append(@, [kind |-> "sleep", n |-> self.backoff * self.attempt]),
                          !.attempt = @ + 1]

\* Lines 64-91, one turn of while attempt <= retries: the request; a 200
\* returns the response; any other status, a Timeout and any other
\* RequestException are logged; then time.sleep(backoff * attempt) unless
\* this was the last attempt, and attempt += 1.
http_get_turn(self, answer) ==
    LET sent == [self EXCEPT !.answers = Append(@, answer),
                             !.events = Append(@, [kind |-> "request", n |-> self.attempt])]
    IN  IF answer = 200
        THEN [sent EXCEPT !.pc = "done", !.returned = "response"]
        ELSE IF self.attempt < self.retries
        THEN [sent EXCEPT !.events = Append(@, [kind |-> "sleep", n |-> self.backoff * self.attempt]),
                          !.attempt = @ + 1]
        ELSE [sent EXCEPT !.attempt = @ + 1]

hg_attempt ==
    /\ http.pc = "while"
    /\ http.attempt <= http.retries
    /\ \E answer \in HttpAnswers : http' = http_get_turn(http, answer)
    /\ UNCHANGED <<opVars, thVars, arrived, wnVars, mxVars, mcVars, training, hist, tok, det>>

\* Lines 93-94: the loop is over, return None.
hg_give_up ==
    /\ http.pc = "while"
    /\ http.attempt > http.retries
    /\ http' = [http EXCEPT !.pc = "done", !.returned = "None"]
    /\ UNCHANGED <<opVars, thVars, arrived, wnVars, mxVars, mcVars, training, hist, tok, det>>

NextHttp == hg_attempt \/ hg_give_up

\* Line 61: attempt = 1.
InitHttp ==
    /\ CoreIdle
    /\ hist = NoHistory
    /\ \E retries \in -1..MaxRetries, backoff \in 1..2 :
          http = [NoHttp EXCEPT !.pc = "while", !.retries = retries, !.backoff = backoff,
                                !.attempt = 1]
    /\ tok = NoTokens
    /\ DetectorIdle

SpecHttp == InitHttp /\ [][NextHttp]_vars

\* The caller's thread keeps running: a turn of the loop that can be
\* taken is taken.
SpecHttpFair == SpecHttp /\ WF_vars(NextHttp)

\* ------------------------------------------------------------------
\* detect_anomalies on its own: any window of at most MaxDetectRows rows,
\* any scaled values, any verdict of the model, any bundle feature list.
\* Rows and columns are numbered from 0 as in the arrays.
\* ------------------------------------------------------------------
AbsDiff(a, b) == IF a >= b THEN a - b ELSE b - a

RECURSIVE SumOver(_, _)
SumOver(f, indices) ==
    IF indices = <<>> THEN 0 ELSE f[Head(indices)] + SumOver(f, Tail(indices))

\* The positions that do not hold -1.
RECURSIVE np_where_unflagged(_, _)
np_where_unflagged(preds, i) ==
    IF i >= Len(preds) THEN <<>>
    ELSE IF preds[i + 1] # -1 THEN <<i>> \o np_where_unflagged(preds, i + 1)
    ELSE np_where_unflagged(preds, i + 1)

\* np.where(preds == -1)[0].tolist(): the positions holding -1, scanned
\* from position i on.
RECURSIVE np_where(_, _)
np_where(preds, i) ==
    IF i >= Len(preds) THEN <<>>
    ELSE IF preds[i + 1] = -1 THEN <<i>> \o np_where(preds, i + 1)
    ELSE np_where(preds, i + 1)

\* Lines 139-143 for column j: the mean absolute deviation of the flagged
\* rows from the column mean, times the number of rows and the number of
\* flagged rows (both the same for every column), to stay in the integers.
avg_dev(X_scaled, anomaly_indices, j) ==
    LET n == Len(X_scaled)
        total == SumOver([i \in 0..(n - 1) |-> X_scaled[i + 1][j + 1]],
                         [i \in 1..n |-> i - 1])
    IN  SumOver([i \in 0..(n - 1) |-> AbsDiff(n * X_scaled[i + 1][j + 1], total)],
                anomaly_indices)

\* np.argsort(-avg_dev) with the default kind, which is not a stable
\* sort: any order of the columns by descending deviation.
argsort_desc(X_scaled, anomaly_indices) ==
    LET k == Len(X_scaled[1]) IN
    {order \in [1..k -> 0..(k - 1)] :
        /\ \A a, b \in 1..k : a # b => order[a] # order[b]
        /\ \A a, b \in 1..k :
              a < b => avg_dev(X_scaled, anomaly_indices, order[a])
                          >= avg_dev(X_scaled, anomaly_indices, order[b])}

\* [:2]
first_two(order) == SubSeq(order, 1, Min(2, Len(order)))

\* _find_top_features, for one outcome of the sort: the names are read in
\* the module's FEATURES.
find_top_features(X_scaled, anomaly_indices, order) ==
    IF Len(anomaly_indices) = 0 THEN <<>>
    ELSE [a \in 1..Len(first_two(order)) |-> FEATURES[first_two(order)[a] + 1]]

\* What scaler.transform and model.predict do.
ScoreOutcomes == {"scaler_raise", "predict_raise", "ok"}

\* detect_anomalies(df, model, scaler, metadata): df has n rows; the
\* scaler gives X_scaled or raises, the model gives preds or raises.
detect_anomalies_df(n, outcome, X_scaled, preds, order, metadata) ==
    IF n = 0
    THEN [NoResult EXCEPT !.reason = "EMPTY_DATAFRAME", !.keys = {"is_anomaly", "reason"}]
    ELSE IF outcome = "scaler_raise"
    THEN [NoResult EXCEPT !.reason = "SCALER_FAILURE", !.keys = {"is_anomaly", "reason"}]
    ELSE IF outcome = "predict_raise"
    THEN [NoResult EXCEPT !.reason = "MODEL_FAILURE", !.keys = {"is_anomaly", "reason"}]
    ELSE LET anomaly_indices == np_where(preds, 0)
             keys == {"is_anomaly", "anomaly_indices", "top_features", "model_metadata"}
         IN  IF anomaly_indices = <<>>
             THEN [NoResult EXCEPT !.keys = keys, !.model_metadata = metadata]
             ELSE [NoResult EXCEPT !.is_anomaly = TRUE, !.keys = keys,
                                   !.anomaly_indices = anomaly_indices,
                                   !.top_features =
                                       find_top_features(X_scaled, anomaly_indices, order),
                                   !.model_metadata = metadata]

\* The feature lists a bundle can record: the configured one, the same
\* names in another order, one name only.
FeatureLists ==
    {FEATURES, <<FEATURES[2], FEATURES[1]>>, <<FEATURES[1]>>, <<FEATURES[2]>>}

\* The windows and verdicts tried: df has n rows and as many columns as
\* the bundle records names, or not; scaled values 0 or 1.
DetectInputs(n, columns, names) ==
    UNION {
        {[NoDetection EXCEPT !.n = n, !.columns = columns, !.feature_names = names,
                             !.outcome = outcome, !.X_scaled = X, !.preds = preds] :
            X \in IF outcome = "ok"
                  THEN [1..n -> [1..columns -> 0..1]]
                  ELSE {[i \in 1..n |-> [j \in 1..columns |-> 0]]},
            preds \in IF outcome = "ok"
                      THEN [1..n -> {1, -1}]
                      ELSE {[i \in 1..n |-> 1]}} :
        outcome \in IF n = 0 THEN {"ok"} ELSE ScoreOutcomes}

d_detect_anomalies ==
    /\ ~det.called
    /\ \E order \in IF det.n > 0 /\ det.outcome = "ok"
                    THEN argsort_desc(det.X_scaled, np_where(det.preds, 0))
                    ELSE {<<>>} :
          det' = [det EXCEPT !.called = TRUE,
                             !.top_idx = first_two(order),
                             !.result = detect_anomalies_df(det.n, det.outcome, det.X_scaled,
                                                            det.preds, order, det.feature_names)]
    /\ UNCHANGED <<opVars, thVars, arrived, wnVars, mxVars, mcVars, training, apiVars>>

NextDetector == d_detect_anomalies

InitDetector ==
    /\ CoreIdle
    /\ ApiIdle
    /\ \E n \in 0..MaxDetectRows, columns \in 1..Len(FEATURES), names \in FeatureLists :
          det \in DetectInputs(n, columns, names)

SpecDetector == InitDetector /\ [][NextDetector]_vars

\* ------------------------------------------------------------------
\* The bearer token: the TokenManager classes of api/token_manager.py and
\* of api/trend_api_client.py, and the token requests of one process.
\* Tokens are numbered in the order the endpoint issues them; time is in
\* seconds.
\* ------------------------------------------------------------------
\* token_manager.py: now >= self._expires_at - 30
TOKEN_MARGIN == 30

\* trend_api_client.py: now >= self.expiry - 60
TREND_TOKEN_MARGIN == 60

\* The seconds a token lives from its issue (the exp claim minus now).
TokenLifetimes == {20, 90}

\* The clock advances by this much between two looks at it.
ClockStep == 15

\* TokenManager(): no token, expiry 0.
TokenManager == [token |-> 0, expires_at |-> 0]

\* _generate_token: the POST; raise_for_status raises on an error
\* answer; otherwise the token and its exp claim are stored.
generate_token(self, post) ==
    IF post.ok THEN [self |-> [token |-> post.token, expires_at |-> post.exp], raised |-> "none"]
    ELSE [self |-> self, raised |-> "HTTPError"]

\* get_token fetching on every call.
get_token_always(self, now, margin, post) ==
    LET generated == generate_token(self, post) IN
    [self |-> generated.self, fetched |-> TRUE, raised |-> generated.raised,
     returned |-> IF generated.raised = "none" THEN generated.self ELSE TokenManager]

\* get_token: a token is generated when there is none or when now has
\* reached the expiry minus the margin; the stored token is returned.
get_token(self, now, margin, post) ==
    IF self.token = 0 \/ now >= self.expires_at - margin
    THEN LET generated == generate_token(self, post) IN
         [self |-> generated.self, fetched |-> TRUE, raised |-> generated.raised,
          returned |-> IF generated.raised = "none" THEN generated.self ELSE TokenManager]
    ELSE [self |-> self, fetched |-> FALSE, raised |-> "none", returned |-> self]

\* What the token endpoint answers at this time.
TokenPosts ==
    {[ok |-> FALSE, token |-> 0, exp |-> 0, lifetime |-> 0]}
    \cup {[ok |-> TRUE, token |-> tok.issued + 1, exp |-> tok.now + life, lifetime |-> life] :
             life \in TokenLifetimes}

\* What a token request leaves in the process.
TokenCall(op, margin, post, got, manager) ==
    [tok EXCEPT !.manager = manager,
                !.calls = @ + 1,
                !.issued = IF got.fetched /\ got.raised = "none" THEN @ + 1 ELSE @,
                !.latest = IF got.fetched /\ got.raised = "none" THEN got.returned ELSE @,
                !.last = [op |-> op, now |-> tok.now, margin |-> margin,
                          fetched |-> got.fetched, raised |-> got.raised,
                          before |-> tok.latest, returned |-> got.returned,
                          lifetime |-> IF got.fetched THEN post.lifetime ELSE 0]]

\* time.time() moves on.
tk_tick ==
    /\ tok.now + ClockStep <= MaxClock
    /\ tok' = [tok EXCEPT !.now = @ + ClockStep]
    /\ UNCHANGED <<opVars, thVars, arrived, wnVars, mxVars, mcVars, training, hist, http, det>>

\* self.token_manager.get_token() on the manager the process holds.
tk_get_token ==
    /\ tok.calls < MaxTokenCalls
    /\ \E post \in TokenPosts :
          LET got == get_token(tok.manager, tok.now, tok.margin, post) IN
          tok' = TokenCall("get_token", tok.margin, post, got, got.self)
    /\ UNCHANGED <<opVars, thVars, arrived, wnVars, mxVars, mcVars, training, hist, http, det>>

\* DeviceAPIClient.get_monitor_and_pg: TokenManager().get_token() on a
\* manager made for the call and dropped after it.
tk_get_monitor_and_pg ==
    /\ tok.calls < MaxTokenCalls
    /\ \E post \in TokenPosts :
          LET got == get_token(TokenManager, tok.now, TOKEN_MARGIN, post) IN
          tok' = TokenCall("get_monitor_and_pg", TOKEN_MARGIN, post, got, tok.manager)
    /\ UNCHANGED <<opVars, thVars, arrived, wnVars, mxVars, mcVars, training, hist, http, det>>

NextTokens == tk_tick \/ tk_get_token \/ tk_get_monitor_and_pg

InitTokens ==
    /\ CoreIdle
    /\ hist = NoHistory
    /\ http = NoHttp
    /\ \E margin \in {TOKEN_MARGIN, TREND_TOKEN_MARGIN} : tok = [NoTokens EXCEPT !.margin = margin]
    /\ DetectorIdle

SpecTokens == InitTokens /\ [][NextTokens]_vars

\* ------------------------------------------------------------------
\* Properties
\* ------------------------------------------------------------------
StateOf(ts, m) == DictGet(ts, m, "NOT_STARTED")

PersistFailures == {"persist_fail_0", "persist_fail_1", "persist_fail_2"}

\* C1: training is invoked at most once per monitor: a call of the training
\* routine for a monitor happens only while the monitor is NOT_STARTED and
\* has never been trained, and it is counted once.
C1_TrainAtMostOnce ==
    [][\A m \in Monitors :
          trainCalls'[m] # trainCalls[m] =>
              /\ StateOf(training_state, m) = "NOT_STARTED"
              /\ trainCalls[m] = 0
              /\ trainCalls'[m] = 1]_vars

\* A later record of a monitor that was trained has been processed.
C1_Witness ==
    /\ last.mon \in Monitors
    /\ trainCalls[last.mon] = 1
    /\ last.prev # "NOT_STARTED"
    /\ last.train = "none"

\* C2: the training state moves only NOT_STARTED -> IN_PROGRESS ->
\* {READY, FAILED}, or NOT_STARTED -> READY when the artifact exists; READY
\* and FAILED never change again, also when a cache load fails.
C2_LifecycleMonotonic ==
    [][\A m \in Monitors :
          LET a == StateOf(training_state, m)
              b == StateOf(training_state', m)
          IN  /\ a \in {"READY", "FAILED"} => b = a
              /\ a = "IN_PROGRESS" => b \in {"IN_PROGRESS", "READY", "FAILED"}
              /\ (a = "NOT_STARTED" /\ b = "READY" /\ last'.train = "none") => store[m].model
              /\ (a = "NOT_STARTED" /\ b = "FAILED") => last'.train # "none"]_vars

\* A READY monitor stayed READY across a failed cache load.
C2_Witness ==
    /\ last.mon \in Monitors
    /\ last.prev = "READY"
    /\ last.load = "fail"
    /\ StateOf(training_state, last.mon) = "READY"

\* C3: with flat_map invocations overlapping on one monitor, the training
\* routine is still invoked once only.
C3_TrainOnceUnderOverlap == \A m \in Monitors : trainCalls[m] <= 1

\* C4: no monitor is left IN_PROGRESS once the record that triggered its
\* training has been processed.
C4_NeverLeftInProgress == \A m \in Monitors : StateOf(training_state, m) # "IN_PROGRESS"

CompleteBundle(m) ==
    /\ store[m].model
    /\ store[m].scaler
    /\ store[m].metadata.present
    /\ store[m].metadata.feature_names = "names"

\* C6: for a READY monitor with a complete bundle, when a record makes the
\* window full and the model flags a row of it (no collaborator failing),
\* an alert is emitted for that record.
C6_AlertOnFlaggedWindow ==
    (/\ last.mon \in Monitors
     /\ StateOf(training_state, last.mon) = "READY"
     /\ CompleteBundle(last.mon)
     /\ last.full
     /\ last.flagged # {}
     /\ ~last.fault
     /\ ~last.raised)
    => last.alerts # <<>>

\* C7: an alert is emitted only when the window was full, the bundle was
\* loaded and detection returned is_anomaly; no error path yields one.
C7_NoAlertOnErrorPath ==
    last.alerts # <<>> =>
        /\ Len(last.alerts) = 1
        /\ last.mon \in Monitors
        /\ last.added
        /\ last.full
        /\ last.load = "ok"
        /\ last.result = "anomaly"
        /\ last.flagged # {}
        /\ ~last.fault
        /\ ~last.raised
        /\ last.train \notin ({"acquire_raise", "no_data"} \cup TrainerOutcomes) \ {"ok"}

\* An alert was emitted.
C7_Witness == last.alerts # <<>> /\ last.alerts[1].indices = last.flagged

\* C8: processing a record of a resolved monitor never raises out of
\* flat_map, whatever the store, the trainer, the cache, the alignment and
\* the detector answer.
C8_NeverRaises == last.mon \in Monitors => ~last.raised

\* C9: a NOT_STARTED monitor whose artifact exists becomes READY only in a
\* call where one cache load of its bundle succeeded.
C9_ReadyOnlyAfterLoad ==
    (/\ last.mon \in Monitors
     /\ last.prev = "NOT_STARTED"
     /\ last.train = "none"
     /\ StateOf(training_state, last.mon) = "READY")
    => last.load = "ok"

\* C10: a training call whose persistence failed never leaves the monitor
\* READY.
C10_PersistFailureNeverReady ==
    (last.mon \in Monitors /\ last.train \in PersistFailures)
    => StateOf(training_state, last.mon) # "READY"

\* C11: after a training run that wrote the model artifact and failed
\* before its last persistence step, the store's existence check answers
\* false for the monitor.
C11_ExistsOnlyAfterLastStep ==
    (/\ last.mon \in Monitors
     /\ last.train \in {"persist_fail_1", "persist_fail_2"}
     /\ last.post # "raise")
    => last.post = "false"

\* C12: a bundle persisted by the trainer and then asked from the cache
\* (no read failing) loads, and the cached metadata is the one written.
C12_TrainedBundleRoundTrip ==
    (/\ last.mon \in Monitors
     /\ trainCalls[last.mon] = 1
     /\ store[last.mon] = FullBundle(TrainerMetadata)
     /\ last.cache
     /\ ~last.fault)
    => /\ last.load = "ok"
       /\ cache # <<>>
       /\ cache[Len(cache)].key = last.mon
       /\ cache[Len(cache)].bundle.metadata = TrainerMetadata

\* detect_anomalies was invoked in the last call.
Scored == last.result \notin {"none", "invalid_metadata"}

\* C13: detect_anomalies is invoked only with a bundle whose status marker
\* is the success value and whose feature list is present and non-empty,
\* and every bundle held by the cache has the success status marker.
C13_OnlyUsableBundlesScored ==
    /\ \A i \in 1..Len(cache) : cache[i].bundle.metadata.training_status = "SUCCESS"
    /\ Scored =>
          /\ last.scored.present
          /\ last.scored.training_status = "SUCCESS"
          /\ last.scored.feature_names = "names"

\* A window was scored with a bundle taken from the cache.
C13_Witness ==
    /\ Scored
    /\ last.scored = Metadata("SUCCESS", "names")
    /\ cache # <<>>
    /\ cache[Len(cache)].key = last.mon

\* C14: when the cache load fails for a READY monitor whose window has just
\* become full, the window is left as the fullness check saw it (the slide
\* is skipped) and nothing is scored.
C14_FailedLoadSkipsSlide ==
    (/\ last.mon \in Monitors
     /\ last.prev = "READY"
     /\ trainCalls[last.mon] = 0
     /\ last.full
     /\ last.load = "fail")
    => /\ ~Scored
       /\ [i \in 1..Len(windows[last.mon]) |-> windows[last.mon][i].seq] = last.window

\* C15: whatever the sequence of add, slide and reset, the buffer never
\* holds more than window_size records.
C15_LengthBounded == Len(sw.buffer) <= sw.window_size

\* More records than window_size were added and none was slid away.
C15_Witness ==
    /\ wop = "add"
    /\ slides = 0
    /\ Len(added) > sw.window_size
    /\ Len(sw.buffer) = sw.window_size

\* C16: slide removes exactly min(slide_size, previous length) records,
\* the oldest ones, keeps the order of the others and leaves window_size
\* and slide_size alone; reset empties the buffer.
C16_SlideDropsOldest ==
    [][/\ wop' = "slide" =>
              LET n == Min(sw.slide_size, Len(sw.buffer)) IN
              /\ Len(sw'.buffer) = Len(sw.buffer) - n
              /\ \A i \in 1..Len(sw'.buffer) : sw'.buffer[i] = sw.buffer[i + n]
              /\ sw'.window_size = sw.window_size
              /\ sw'.slide_size = sw.slide_size
       /\ wop' = "reset" =>
              /\ sw'.buffer = <<>>
              /\ sw'.window_size = sw.window_size
              /\ sw'.slide_size = sw.slide_size]_vars

\* A slide removed some records and left others.
C16_Witness ==
    /\ wop = "slide"
    /\ slides = 1
    /\ sw.buffer # <<>>
    /\ Len(sw.buffer) < Len(added)

\* C17: with no slide since the window was empty, the buffer holds the
\* last min(n, window_size) of the n records added, in arrival order.
C17_AddIsBoundedFifo ==
    slides = 0 =>
        LET n == Len(added)
            k == Min(n, sw.window_size)
        IN  sw.buffer = [i \in 1..k |-> added[n - k + i]]

\* An add evicted the oldest record.
C17_Witness ==
    /\ wop = "add"
    /\ slides = 0
    /\ Len(added) = sw.window_size + 2
    /\ sw.buffer[1] = 3

\* C18: is_full() is true iff the buffer length equals window_size: from
\* an empty window it is false for the first window_size-1 adds, true from
\* the window_size-th add onward, and false again right after a slide.
C18_FullIffLengthIsSize ==
    /\ is_full(sw) <=> (Len(sw.buffer) = sw.window_size)
    /\ slides = 0 => (is_full(sw) <=> Len(added) >= sw.window_size)
    /\ wop = "slide" => ~is_full(sw)

\* The window is full after an add beyond the window_size-th.
C18_Witness ==
    /\ wop = "add"
    /\ slides = 0
    /\ sw.window_size > 1
    /\ Len(added) > sw.window_size
    /\ is_full(sw)

\* C19: the buffer of a monitor holds the most recently accepted readings
\* of the monitor in arrival order, and at every fullness check that
\* succeeds the window is exactly the WINDOW_COUNT most recent ones, oldest
\* first.
C19_WindowIsMostRecentArrivals ==
    /\ \A m \in DOMAIN windows :
          /\ Len(windows[m]) <= arrived[m]
          /\ \A i \in 1..Len(windows[m]) :
                windows[m][i].seq = arrived[m] - Len(windows[m]) + i
    /\ (last.mon \in Monitors /\ last.full) =>
          last.window = [i \in 1..WINDOW_COUNT |-> arrived[last.mon] - WINDOW_COUNT + i]

\* A fullness check succeeded on a window that had lost readings before.
C19_Witness ==
    /\ last.mon \in Monitors
    /\ last.full
    /\ arrived[last.mon] > WINDOW_COUNT
    /\ last.window[1] > 1

\* C20: the window of a monitor is never full between two records: every
\* pass on a full window drops the oldest entries before the call ends.
C20_NeverFullBetweenRecords ==
    \A m \in DOMAIN windows : ~SlidingWindow_is_full(windows[m])

\* C21: building the feature matrix never raises, whatever the buffer
\* (empty included) and whatever the records hold, and the matrix has one
\* row per buffered record, the canonical columns, a float for every
\* number or numeric string and 0.0 for every missing, null or unparseable
\* value.
C21_MatrixNeverFaults ==
    /\ wop = "to_dataframe" =>
          /\ ~df.frame.raised
          /\ Len(df.frame.rows) = Len(sw.buffer)
    /\ wop = "_align_features" =>
          /\ ~aligned.raised
          /\ aligned.columns = FEATURES
          /\ Len(aligned.rows) = Len(sw.buffer)
          /\ \A i \in 1..Len(aligned.rows) : \A j \in 1..Len(FEATURES) :
                aligned.rows[i][j] =
                    IF sw.buffer[i].PROCESS_PARAMETER[MODEL_FEATURE_CODES[j]] \in {"num", "numstr"}
                    THEN "float" ELSE "0.0"

C23_MonitorIsolation ==
    [][/\ \A b \in Monitors \ {last'.mon} :
              /\ (b \in DOMAIN windows') = (b \in DOMAIN windows)
              /\ b \in DOMAIN windows => windows'[b] = windows[b]
              /\ (b \in DOMAIN training_state') = (b \in DOMAIN training_state)
              /\ b \in DOMAIN training_state => training_state'[b] = training_state[b]
       /\ DOMAIN windows' # DOMAIN windows =>
              /\ last'.added
              /\ DOMAIN windows' = DOMAIN windows \cup {last'.mon}
       /\ last'.added => last'.mon \in DOMAIN windows']_vars

\* A record was buffered for one monitor while another monitor had
\* records in its window.
C23_Witness ==
    /\ last.mon \in Monitors
    /\ last.added
    /\ \E b \in DOMAIN windows : b # last.mon /\ Len(windows[b]) > 0

\* C24: after every get() or clear(), returned or failed, the cache holds at
\* most max_size entries, max_size being the value set at construction.
C24_CacheSizeBounded ==
    /\ Len(mc.cache) <= mc.max_size
    /\ mc.max_size \in 1..MaxCacheSize

\* A get() missed on a full cache.
C24_Witness ==
    /\ clast.op = "get"
    /\ clast.loaded
    /\ clast.error = "none"
    /\ Len(clast.before) = mc.max_size
    /\ Len(mc.cache) = mc.max_size

\* The keys of u ordered by their last occurrence, oldest first.
RECURSIVE RecencyOrder(_)
RecencyOrder(u) ==
    IF u = <<>> THEN <<>>
    ELSE LET k == u[Len(u)] IN
         Append(SelectSeq(RecencyOrder(SubSeq(u, 1, Len(u) - 1)), LAMBDA x : x # k), k)

\* C25: the cache holds the max_size most recently got keys, least recent
\* first: a miss on a full cache evicts the key whose last successful get
\* is the oldest and never the key just loaded, and a hit moves its key to
\* the most recent place without reading the store.
C25_LeastRecentlyUsedEvicted ==
    /\ LET order == RecencyOrder(uses)
           kept == Min(Len(order), mc.max_size)
       IN  [i \in 1..Len(mc.cache) |-> mc.cache[i].key] =
               [i \in 1..kept |-> order[Len(order) - kept + i]]
    /\ (clast.op = "get" /\ clast.error = "none") =>
          /\ mc.cache[Len(mc.cache)].key = clast.key
          /\ clast.key \in CacheKeys(clast.before) <=> ~clast.loaded

\* A miss evicted an entry while the key used first, got again since, stayed.
C25_Witness ==
    /\ clast.op = "get"
    /\ clast.loaded
    /\ clast.error = "none"
    /\ Len(clast.before) = mc.max_size
    /\ uses[1] # clast.key
    /\ uses[1] \in CacheKeys(mc.cache)
    /\ CacheKeys(clast.before) \ CacheKeys(mc.cache) # {}

\* C28: a get() that fails on a miss leaves with ModelNotFoundError when the
\* bucket has no artifact for the key and with ModelLoadError when the
\* bundle is unreadable or its metadata is rejected (the store answering
\* its existence check), and it leaves the cache and its order unchanged.
C28_FailedGetTypedAndInert ==
    (clast.op = "get" /\ clast.error \notin {"none", "ClientError"}) =>
        /\ clast.error = IF CacheStore[clast.key].model THEN "ModelLoadError"
                         ELSE "ModelNotFoundError"
        /\ mc.cache = clast.before

\* C26: a caller that inserts a key another caller inserted since its own
\* miss keeps the entry it finds: the cached object is not replaced, and
\* the object the caller goes on to return is the cached one.
C26_SecondLoadDiscarded ==
    (clast.op = "insert" /\ clast.present) =>
        /\ clast.after = clast.old
        /\ clast.held = clast.old

\* C27: with get() calls interleaved, no call raises KeyError, no call
\* misses on a key that another call is promoting at that moment, and the
\* cache holds at most max_size entries whenever no call is in progress.
C27_InterleavedGetsAreSafe ==
    /\ \A t \in Threads : clocal[t].error # "KeyError"
    /\ ~clast.promoting
    /\ (\A t \in Threads : cpc[t] = "idle") => Len(mc.cache) <= mc.max_size

\* What a row must hold to be a training row: a value for every code.
RowComplete(params) ==
    \A j \in 1..Len(MODEL_FEATURE_CODES) : params[MODEL_FEATURE_CODES[j]] \notin {"absent", "null"}

ValuesOf(params) == [j \in 1..Len(MODEL_FEATURE_CODES) |-> params[MODEL_FEATURE_CODES[j]]]

CompleteRows(param_rows) == {i \in 1..Len(param_rows) : RowComplete(param_rows[i])}

C30_NoValidRowsIsAnError ==
    (training.called /\ CompleteRows(training.param_rows) = {}) =>
        /\ store[training.monitor_id] = EmptyBundle
        /\ training.raised

\* The readings of chunk c a response holds that give a record.
UsableIn(response, c) ==
    {i \in 1..Len(response.readings) :
        response.readings[i].time = c /\ response.readings[i].jsonavg = "object"}

EmptyChunks(response) == {c \in Chunks : UsableIn(response, c) = {}}

\* C31: when the trend API answers the history request and a chunk of the
\* range gives no record, the acquisition fails under the strict policy
\* and, under the best-effort policy, succeeds with the records of the
\* other chunks in chronological order, unless no chunk gives a record,
\* which fails under both.
C31_ChunkPolicy ==
    (/\ hist.called
     /\ hist.token = "ok"
     /\ hist.response.status_code = 200
     /\ hist.response.body = "monitors"
     /\ \A i \in 1..Len(hist.response.readings) : hist.response.readings[i].jsonavg # "scalar")
    => /\ (hist.policy = "strict" /\ EmptyChunks(hist.response) # {}) => hist.raised # "none"
       /\ (hist.policy = "best_effort" /\ EmptyChunks(hist.response) # Chunks)
             => /\ hist.raised = "none"
                /\ Len(hist.records) = Cardinality(UNION {UsableIn(hist.response, c) : c \in Chunks})
                /\ \A i, k \in 1..Len(hist.records) :
                      i < k => hist.records[i].timestamp <= hist.records[k].timestamp
       /\ EmptyChunks(hist.response) = Chunks => hist.raised # "none"

\* C32: once a request has been answered 401 no further request is sent
\* for the call.
C32_Unauthorized401NotRetried ==
    \A j \in 1..Len(http.answers) : http.answers[j] = 401 => j = Len(http.answers)

RequestsSent == Len(SelectSeq(http.events, LAMBDA ev : ev.kind = "request"))

\* What http_get does around k requests: request 1, a wait of backoff*1,
\* request 2, a wait of backoff*2, ..., request k.
RECURSIVE ExpectedEvents(_, _)
ExpectedEvents(k, backoff) ==
    IF k <= 0 THEN <<>>
    ELSE IF k = 1 THEN <<[kind |-> "request", n |-> 1]>>
    ELSE ExpectedEvents(k - 1, backoff)
            \o <<[kind |-> "sleep", n |-> backoff * (k - 1)], [kind |-> "request", n |-> k]>>

HttpGetSafe ==
    /\ RequestsSent <= IF http.retries > 0 THEN http.retries ELSE 0
    /\ http.pc = "done" =>
          /\ http.events = ExpectedEvents(Len(http.answers), http.backoff)
          /\ RequestsSent = Len(http.answers)
          /\ http.returned = "response" =>
                /\ http.answers # <<>>
                /\ http.answers[Len(http.answers)] = 200
                /\ \A j \in 1..(Len(http.answers) - 1) : http.answers[j] # 200
          /\ http.returned = "None" =>
                /\ Len(http.answers) = (IF http.retries > 0 THEN http.retries ELSE 0)
                /\ \A j \in 1..Len(http.answers) : http.answers[j] # 200

\* C38: http_get ends, after at most retries requests: with the response
\* of the first request answered 200 and no request after it, or with None
\* once retries requests failed; it waits backoff*attempt between two
\* requests and not after the last; with retries <= 0 it sends nothing and
\* returns None.
C38_HttpGetTerminates == []HttpGetSafe /\ <>(http.pc = "done")

\* C38 witness: three attempts failed in three ways and None was returned
\* after two waits.
C38_Witness ==
    /\ http.pc = "done"
    /\ http.returned = "None"
    /\ http.retries = 3
    /\ http.answers = <<500, Timeout, RequestException>>
    /\ Len(http.events) = 5

FlaggedRows == {i \in 0..(det.n - 1) : det.preds[i + 1] = -1}

\* C33: when the model has scored the window, the result is an anomaly iff
\* at least one row is flagged, with anomaly_indices the flagged positions
\* in ascending order; with no row flagged, is_anomaly is false and the
\* index and feature lists are present and empty.
C33_AnomalyIndices ==
    (det.called /\ det.n > 0 /\ det.outcome = "ok") =>
        LET result == det.result IN
        /\ result.raised = "none"
        /\ result.is_anomaly <=> FlaggedRows # {}
        /\ {"anomaly_indices", "top_features"} \subseteq result.keys
        /\ Len(result.anomaly_indices) = Cardinality(FlaggedRows)
        /\ {result.anomaly_indices[a] : a \in 1..Len(result.anomaly_indices)} = FlaggedRows
        /\ \A a, b \in 1..Len(result.anomaly_indices) :
              a < b => result.anomaly_indices[a] < result.anomaly_indices[b]
        /\ FlaggedRows = {} => result.top_features = <<>>

\* C33 witness: of three rows the first and the last are flagged.
C33_Witness ==
    /\ det.called
    /\ det.n = 3
    /\ det.preds = <<-1, 1, -1>>
    /\ det.result.is_anomaly
    /\ det.result.anomaly_indices = <<0, 2>>

\* C34: detect_anomalies never raises and records its failures: an empty
\* input as EMPTY_INPUT, else a column count other than the bundle's
\* recorded feature count as FEATURE_MISMATCH, else a failing scaler as
\* SCALER_FAILURE, else a failing model as MODEL_FAILURE, is_anomaly being
\* false in each case.
C34_FailureReasons ==
    det.called =>
        LET result == det.result
            expected ==
                CASE det.n = 0 -> "EMPTY_INPUT"
                  [] det.columns # Len(det.feature_names) -> "FEATURE_MISMATCH"
                  [] det.outcome = "scaler_raise" -> "SCALER_FAILURE"
                  [] det.outcome = "predict_raise" -> "MODEL_FAILURE"
                  [] OTHER -> "none"
        IN  /\ result.raised = "none"
            /\ result.reason = expected
            /\ expected # "none" => ~result.is_anomaly

\* avg_dev of column j of the scored window, for the flagged rows.
DeviationOf(j) == avg_dev(det.X_scaled, det.result.anomaly_indices, j)

\* C35: a positive detection names min(2, feature count) distinct
\* features, by descending mean absolute deviation of the flagged rows,
\* the lower column first among equal deviations, each name being the
\* bundle's feature name at the selected column.
C35_TopFeatures ==
    (det.called /\ det.result.is_anomaly /\ det.columns = Len(det.feature_names)) =>
        LET top == det.result.top_features
            idx == det.top_idx
        IN  /\ Len(top) = Min(2, det.columns)
            /\ \A a, b \in 1..Len(top) : a # b => top[a] # top[b]
            /\ \A a \in 1..Len(idx) : \A j \in 0..(det.columns - 1) :
                  (\A b \in 1..a : idx[b] # j) =>
                      \/ DeviationOf(idx[a]) > DeviationOf(j)
                      \/ DeviationOf(idx[a]) = DeviationOf(j) /\ idx[a] < j
            /\ \A a \in 1..Len(top) : top[a] = det.feature_names[idx[a] + 1]

\* C36: every alert of a call names the monitor whose window was scored,
\* says isAnomaly, and carries the detection's row indices, its top
\* features and the metadata of the bundle that scored; a call yields at
\* most one alert.
C36_AlertPayload ==
    /\ Len(last.alerts) <= 1
    /\ \A a \in 1..Len(last.alerts) :
          LET alert == last.alerts[a] IN
          /\ alert.monitorId = last.mon
          /\ alert.isAnomaly
          /\ alert.indices = last.flagged
          /\ alert.modelMetadata = last.scored
          /\ "topFeatures" \in DOMAIN alert

\* C37: in one process a token is requested from the endpoint only when
\* the process has no token or its token is within the margin of its
\* expiry, a token still good is returned without a request, and a token
\* returned is not within the margin when the endpoint issues tokens that
\* outlive it.
C37_TokenFetchedOnlyWhenNeeded ==
    tok.last.op # "none" =>
        LET call == tok.last
            needed == call.before.token = 0 \/ call.now >= call.before.expires_at - call.margin
        IN  /\ call.fetched <=> needed
            /\ (call.raised = "none" /\ ~call.fetched) => call.returned = call.before
            /\ (call.raised = "none" /\ (call.fetched => call.lifetime > call.margin))
                  => call.now < call.returned.expires_at - call.margin

\* C39: the record that makes a monitor train is kept: when the training
\* call returns and the artifact is then found, the monitor's window is
\* new and holds that record as its only entry; a monitor that is FAILED
\* has no window.
C39_TriggerRecordBuffered ==
    /\ (last.mon \in Monitors /\ last.train # "none" /\ last.post = "true") =>
          /\ StateOf(training_state, last.mon) = "READY"
          /\ last.added
          /\ last.mon \in DOMAIN windows
          /\ Len(windows[last.mon]) = 1
          /\ get_monitor_id_runtime(windows[last.mon][1].DEVICEID) = last.mon
    /\ \A m \in Monitors : StateOf(training_state, m) = "FAILED" => m \notin DOMAIN windows

\* C39 witness: a training call returned, the artifact was found, and the
\* record is in the window.
C39_Witness ==
    /\ last.mon \in Monitors
    /\ last.train = "ok"
    /\ last.post = "true"
    /\ last.mon \in DOMAIN windows
    /\ Len(windows[last.mon]) = 1
    /\ \E m \in Monitors : StateOf(training_state, m) = "FAILED"

\* C40: a call that ends before a monitor is known (payload that does not
\* parse, no DEVICEID, device not resolved) changes no training state, no
\* window, no cache entry and no artifact, and calls neither the store
\* nor the trainer.
C40_UnresolvedRecordInert ==
    [][last'.mon = 0 =>
          /\ training_state' = training_state
          /\ windows' = windows
          /\ cache' = cache
          /\ store' = store
          /\ trainCalls' = trainCalls
          /\ ~last'.store
          /\ ~last'.cache
          /\ last'.train = "none"
          /\ last'.alerts = <<>>]_vars

\* C40 witness: a device was not resolved while a monitor had a window
\* and a cached bundle.
C40_Witness ==
    /\ last.mon = 0
    /\ last.fault
    /\ ~last.raised
    /\ windows # EmptyDict
    /\ cache # <<>>

====
